---- MODULE Spec2Model ----
(***************************************************************************)
(* Beam analysis engine of the mullion widget (analysis/beam_analysis.py)  *)
(* with the input entities it consumes (inputs/loading.py,                 *)
(* inputs/load_cases.py, input/geometry.py).                               *)
(*                                                                         *)
(* The program is single threaded.  Its state is the frame of the call in  *)
(* progress (pc, args and the locals of the loop over the load cases) and  *)
(* the value the finished call returned (ret).  Every function modelled is *)
(* a pure function of its arguments, so a behaviour is one call: from      *)
(* "idle" through the steps of the call to "done".                         *)
(*                                                                         *)
(* Python floats are modelled by exact rationals <<num, den>> in lowest    *)
(* terms with den > 0, so every +, -, *, / of the source is carried out as *)
(* written and no rounding is modelled.  Arrays are sequences: index i of  *)
(* the source is index i+1 here.                                           *)
(***************************************************************************)
EXTENDS Integers, Sequences, FiniteSets, TLC

VARIABLES pc, args, loc, ret

vars == <<pc, args, loc, ret>>

\* ------------------------------------------------------------------------
\* Bounds of the model
\* ------------------------------------------------------------------------
MaxPoints == 5
MaxLoads == 2
MaxCases == 3

\* ------------------------------------------------------------------------
\* Float arithmetic, exact
\* ------------------------------------------------------------------------
RECURSIVE GCD(_, _)
GCD(a, b) == IF b = 0 THEN a ELSE GCD(b, a % b)

IAbs(n) == IF n < 0 THEN -n ELSE n

\* n/d in lowest terms, d # 0
Norm(n, d) ==
    LET g == GCD(IAbs(n), IAbs(d))
        s == IF d < 0 THEN -1 ELSE 1
    IN  <<(s * n) \div g, (s * d) \div g>>

R(n) == <<n, 1>>
Zero == <<0, 1>>

RAdd(a, b) ==
    IF a[2] = b[2] THEN Norm(a[1] + b[1], a[2])
    ELSE LET g == GCD(a[2], b[2])
         IN  Norm(a[1] * (b[2] \div g) + b[1] * (a[2] \div g),
                  (a[2] \div g) * b[2])

RNeg(a) == <<-a[1], a[2]>>

RSub(a, b) == RAdd(a, RNeg(b))

RMul(a, b) ==
    IF a[1] = 0 \/ b[1] = 0 THEN Zero
    ELSE LET g1 == GCD(IAbs(a[1]), b[2])
             g2 == GCD(IAbs(b[1]), a[2])
         IN  Norm((a[1] \div g1) * (b[1] \div g2),
                  (a[2] \div g2) * (b[2] \div g1))

\* b # 0 (a float division by zero raises ZeroDivisionError in Python)
RDiv(a, b) ==
    IF b[1] < 0 THEN RMul(a, <<-b[2], -b[1]>>) ELSE RMul(a, <<b[2], b[1]>>)

RLt(a, b) == RSub(a, b)[1] < 0
RGt(a, b) == RLt(b, a)
RGe(a, b) == ~RLt(a, b)
RLe(a, b) == ~RLt(b, a)

RAbs(a) == <<IAbs(a[1]), a[2]>>

RECURSIVE RSum(_)
RSum(s) == IF s = <<>> THEN Zero ELSE RAdd(RSum(SubSeq(s, 1, Len(s) - 1)), s[Len(s)])

\* np.max of a non-empty array
RMax(s) == CHOOSE m \in {s[k] : k \in 1..Len(s)} :
               \A j \in 1..Len(s) : RLe(s[j], m)

\* the first index of s holding m
FirstIndexOf(s, m) == CHOOSE k \in 1..Len(s) :
                         /\ s[k] = m
                         /\ \A j \in 1..(k - 1) : s[j] # m

\* an argmax that resolves ties to the highest index
ArgMax_LastIndex(s) == CHOOSE k \in 1..Len(s) :
                           /\ s[k] = RMax(s)
                           /\ \A j \in (k + 1)..Len(s) : s[j] # RMax(s)

\* np.argmax: the first index holding the maximum
ArgMax(s) == FirstIndexOf(s, RMax(s))

\* an array given element by element, as the tuple of its values
Array(f) == f \o <<>>

\* np.abs of an array
AbsArr(s) == Array([k \in 1..Len(s) |-> RAbs(s[k])])

\* Python's None
None == "None"

\* ------------------------------------------------------------------------
\* Load entity (inputs/loading.py)
\* ------------------------------------------------------------------------
\* Load.__post_init__: TRUE when the constructor raises no ValueError
LoadValid(kind, magnitude, distribution, height_mm) ==
    /\ ~RLt(magnitude, Zero)
    /\ distribution \in {"uniform", "point"}
    /\ ~(/\ kind = "BARRIER"
         /\ distribution = "uniform"
         /\ (height_mm = None \/ RLe(height_mm, Zero)))

Load(kind, magnitude, distribution, height_mm) ==
    [kind |-> kind, magnitude |-> magnitude,
     distribution |-> distribution, height_mm |-> height_mm]

\* ------------------------------------------------------------------------
\* Geometry entity (input/geometry.py) and Material entity (inputs/material.py)
\* ------------------------------------------------------------------------
\* a Geometry check that lets a span of zero through
GeometryValid_ZeroSpan(span_mm, bay_width_mm) ==
    /\ ~RLt(span_mm, Zero)
    /\ ~RLe(bay_width_mm, Zero)

\* Geometry.__post_init__: TRUE when the constructor raises no ValueError
GeometryValid(span_mm, bay_width_mm) ==
    /\ ~RLe(span_mm, Zero)
    /\ ~RLe(bay_width_mm, Zero)

Geometry(span_mm, bay_width_mm) ==
    [span_mm |-> span_mm, bay_width_mm |-> bay_width_mm]

\* Material.__post_init__: TRUE when the constructor raises no ValueError
MaterialValid(E, density, fy) ==
    /\ ~RLe(E, Zero)
    /\ ~RLe(density, Zero)
    /\ ~RLe(fy, Zero)

Material(material_type, grade, E, density, fy) ==
    [material_type |-> material_type, grade |-> grade,
     E |-> E, density |-> density, fy |-> fy]

\* what a constructor call leaves behind: the entity, or a ValueError and
\* no entity
Constructed(fn, a, valid, entity) ==
    IF valid
    THEN [fn |-> fn, args |-> a, raised |-> None, value |-> entity]
    ELSE [fn |-> fn, args |-> a, raised |-> "ValueError"]

\* ------------------------------------------------------------------------
\* Beam solver (analysis/beam_analysis.py)
\* ------------------------------------------------------------------------
\* a linspace without its endpoint: n samples of step L / n
Linspace_NoEndpoint(L, n) ==
    LET step == RDiv(L, R(n))
    IN  Array([k \in 1..n |-> RMul(R(k - 1), step)])

\* np.linspace(0, L, n_points), n_points >= 2
Linspace(L, n) ==
    LET step == RDiv(L, R(n - 1))
    IN  Array([k \in 1..n |-> IF k = n THEN L ELSE RMul(R(k - 1), step)])

\* the loop that separates the loads: w in N/m of every uniform load
RECURSIVE uniform_loads(_)
uniform_loads(loads) ==
    IF loads = <<>> THEN <<>>
    ELSE LET load == loads[Len(loads)]
             rest == uniform_loads(SubSeq(loads, 1, Len(loads) - 1))
         IN  IF load.distribution = "uniform"
             THEN Append(rest, RMul(load.magnitude, R(1000)))
             ELSE rest

\* point_loads with a load that carries a height placed at that height
RECURSIVE point_loads_AtHeight(_, _)
point_loads_AtHeight(loads, L) ==
    IF loads = <<>> THEN <<>>
    ELSE LET load == loads[Len(loads)]
             rest == point_loads_AtHeight(SubSeq(loads, 1, Len(loads) - 1), L)
         IN  IF load.distribution = "point"
             THEN Append(rest, <<load.magnitude,
                                 IF load.height_mm = None THEN RDiv(L, R(2))
                                 ELSE RDiv(load.height_mm, R(1000))>>)
             ELSE rest

\* point_loads with every point load at the quarter of the span
RECURSIVE point_loads_AtQuarter(_, _)
point_loads_AtQuarter(loads, L) ==
    IF loads = <<>> THEN <<>>
    ELSE LET load == loads[Len(loads)]
             rest == point_loads_AtQuarter(SubSeq(loads, 1, Len(loads) - 1), L)
         IN  IF load.distribution = "point"
             THEN Append(rest, <<load.magnitude, RDiv(L, R(4))>>)
             ELSE rest

\* the loop that separates the loads: <<P, a>> of every point load
RECURSIVE point_loads(_, _)
point_loads(loads, L) ==
    IF loads = <<>> THEN <<>>
    ELSE LET load == loads[Len(loads)]
             rest == point_loads(SubSeq(loads, 1, Len(loads) - 1), L)
         IN  IF load.distribution = "point"
             THEN Append(rest, <<load.magnitude, RDiv(L, R(2))>>)
             ELSE rest

\* Reactions with RB = total_moment, not divided by L: the equilibrium of
\* moments is lost
Reactions_NoDivision(L, ul, pl) ==
    LET W_total == RSum([k \in 1..Len(ul) |-> RMul(ul[k], L)])
        P_total == RSum([k \in 1..Len(pl) |-> pl[k][1]])
        moment_uniform == RSum([k \in 1..Len(ul) |->
                                   RMul(RMul(ul[k], L), RDiv(L, R(2)))])
        moment_point == RSum([k \in 1..Len(pl) |-> RMul(pl[k][1], pl[k][2])])
        RB == RAdd(moment_uniform, moment_point)
    IN  [RA |-> RSub(RAdd(W_total, P_total), RB), RB |-> RB]

\* Reactions falling back to zero only for L = 0: a negative span divides
Reactions_NonZeroSpan(L, ul, pl) ==
    LET W_total == RSum([k \in 1..Len(ul) |-> RMul(ul[k], L)])
        P_total == RSum([k \in 1..Len(pl) |-> pl[k][1]])
        total_load == RAdd(W_total, P_total)
        moment_uniform == RSum([k \in 1..Len(ul) |->
                                   RMul(RMul(ul[k], L), RDiv(L, R(2)))])
        moment_point == RSum([k \in 1..Len(pl) |-> RMul(pl[k][1], pl[k][2])])
        total_moment == RAdd(moment_uniform, moment_point)
    IN  IF L # Zero
        THEN LET RB == RDiv(total_moment, L)
             IN  [RA |-> RSub(total_load, RB), RB |-> RB]
        ELSE [RA |-> Zero, RB |-> Zero]

\* RA and RB from equilibrium
Reactions(L, ul, pl) ==
    LET W_total == RSum([k \in 1..Len(ul) |-> RMul(ul[k], L)])
        P_total == RSum([k \in 1..Len(pl) |-> pl[k][1]])
        total_load == RAdd(W_total, P_total)
        moment_uniform == RSum([k \in 1..Len(ul) |->
                                   RMul(RMul(ul[k], L), RDiv(L, R(2)))])
        moment_point == RSum([k \in 1..Len(pl) |-> RMul(pl[k][1], pl[k][2])])
        total_moment == RAdd(moment_uniform, moment_point)
    IN  IF RGt(L, Zero)
        THEN LET RB == RDiv(total_moment, L)
             IN  [RA |-> RSub(total_load, RB), RB |-> RB]
        ELSE [RA |-> Zero, RB |-> Zero]

\* ShearAt with a point load subtracted only beyond its position, x > a
ShearAt_Beyond(RA, ul, pl, x) ==
    LET afterUniform == RSub(RA, RSum([k \in 1..Len(ul) |-> RMul(ul[k], x)]))
        passed == RSum([k \in 1..Len(pl) |->
                          IF RGt(x, pl[k][2]) THEN pl[k][1] ELSE Zero])
    IN  RSub(afterUniform, passed)

\* V[i] at position x
ShearAt(RA, ul, pl, x) ==
    LET afterUniform == RSub(RA, RSum([k \in 1..Len(ul) |-> RMul(ul[k], x)]))
        passed == RSum([k \in 1..Len(pl) |->
                          IF RGe(x, pl[k][2]) THEN pl[k][1] ELSE Zero])
    IN  RSub(afterUniform, passed)

\* MomentUpTo by the left rectangle rule, M[i] = M[i-1] + V[i-1] * dx
RECURSIVE MomentUpTo_LeftRule(_, _, _)
MomentUpTo_LeftRule(V, dx, k) ==
    IF k = 1 THEN <<Zero>>
    ELSE LET prev == MomentUpTo_LeftRule(V, dx, k - 1)
         IN  Append(prev, RAdd(prev[k - 1], RMul(V[k - 1], dx)))

\* M[0..k-1] by the trapezoidal integration of V
RECURSIVE MomentUpTo(_, _, _)
MomentUpTo(V, dx, k) ==
    IF k = 1 THEN <<Zero>>
    ELSE LET prev == MomentUpTo(V, dx, k - 1)
         IN  Append(prev, RAdd(prev[k - 1],
                               RDiv(RMul(RAdd(V[k - 1], V[k]), dx), R(2))))

\* Each step of a function below is written
\*     CHOOSE r \in {Rest(v) : v \in {step}} : TRUE
\* which is Rest(step) with the step's value computed once, before the rest.

\* the result once V and dx are known: M by integration, and the returned dict
SolveMoment(x_m, re, V, dx) ==
    [x_m |-> x_m, V |-> V, M |-> MomentUpTo(V, dx, Len(x_m)),
     RA |-> re.RA, RB |-> re.RB]

\* the result once the reactions are known: V at every sample, then dx
SolveShear(x_m, re, ul, pl) ==
    CHOOSE r \in {SolveMoment(x_m, re, s[1], s[2]) :
                     s \in {<<Array([k \in 1..Len(x_m) |->
                                        ShearAt(re.RA, ul, pl, x_m[k])]),
                              RSub(x_m[2], x_m[1])>>}} : TRUE

\* the result once the loads are separated
SolveLoads(L, x_m, ul, pl) ==
    CHOOSE r \in {SolveShear(x_m, re, ul, pl) :
                     re \in {Reactions(L, ul, pl)}} : TRUE

\* the result once L is known
SolveSpan(L, loads, n_points) ==
    CHOOSE r \in {SolveLoads(L, s[1], s[2], s[3]) :
                     s \in {<<Linspace(L, n_points), uniform_loads(loads),
                              point_loads(loads, L)>>}} : TRUE

compute_wind_barrier_uniform_and_point(span_mm, loads, n_points) ==
    CHOOSE r \in {SolveSpan(L, loads, n_points) :
                     L \in {RDiv(span_mm, R(1000))}} : TRUE

\* ------------------------------------------------------------------------
\* Deflection integrator
\* ------------------------------------------------------------------------
RECURSIVE ThetaUpTo(_, _, _)
ThetaUpTo(kappa, dx, k) ==
    IF k = 1 THEN <<Zero>>
    ELSE LET prev == ThetaUpTo(kappa, dx, k - 1)
         IN  Append(prev, RAdd(prev[k - 1],
                               RDiv(RMul(RAdd(kappa[k - 1], kappa[k]), dx), R(2))))

RECURSIVE VRawUpTo(_, _, _)
VRawUpTo(theta, dx, k) ==
    IF k = 1 THEN <<Zero>>
    ELSE LET prev == VRawUpTo(theta, dx, k - 1)
         IN  Append(prev, RAdd(prev[k - 1],
                               RDiv(RMul(RAdd(theta[k - 1], theta[k]), dx), R(2))))

\* ApplyBoundary with v = v_raw + C1 + C2, the slope correction not
\* multiplied by x
ApplyBoundary_NoPosition(x_m, v_raw, C1, C2) ==
    [v |-> Array([k \in 1..Len(x_m) |-> RAdd(RAdd(v_raw[k], C1), C2)]),
     C1 |-> C1, C2 |-> C2, v_raw |-> v_raw]

\* the boundary conditions applied to v_raw, and the returned tuple
ApplyBoundary(x_m, v_raw, C1, C2) ==
    [v |-> Array([k \in 1..Len(x_m) |->
                     RAdd(RAdd(v_raw[k], RMul(C1, x_m[k])), C2)]),
     C1 |-> C1, C2 |-> C2, v_raw |-> v_raw]

\* C1 from v_raw, C2 and L
SolveC1(x_m, v_raw, C2, L) ==
    CHOOSE r \in {ApplyBoundary(x_m, v_raw, C1, C2) :
                     C1 \in {IF RGt(L, Zero)
                              THEN RDiv(RNeg(RAdd(v_raw[Len(x_m)], C2)), L)
                              ELSE Zero}} : TRUE

\* the constants once v_raw is known
Boundary(x_m, v_raw) ==
    CHOOSE r \in {SolveC1(x_m, v_raw, s[1], s[2]) :
                     s \in {<<RNeg(v_raw[1]),
                              RSub(x_m[Len(x_m)], x_m[1])>>}} : TRUE

\* the second integration, of the slope
IntegrateSlope(x_m, theta, dx) ==
    CHOOSE r \in {Boundary(x_m, v_raw) :
                     v_raw \in {VRawUpTo(theta, dx, Len(x_m))}} : TRUE

\* the first integration, of the curvature
IntegrateTwice(x_m, kappa, dx) ==
    CHOOSE r \in {IntegrateSlope(x_m, theta, dx) :
                     theta \in {ThetaUpTo(kappa, dx, Len(x_m))}} : TRUE

\* compute_deflection_from_M with kappa = M / E * I, the parentheses of
\* M / (E * I) lost
compute_deflection_from_M_Precedence(x_m, M, E, I) ==
    CHOOSE r \in {IntegrateTwice(x_m, s[1], s[2]) :
                     s \in {<<Array([k \in 1..Len(x_m) |->
                                        RMul(RDiv(M[k], E), I)]),
                              RSub(x_m[2], x_m[1])>>}} : TRUE

\* E * I # 0 and Len(x_m) >= 2
compute_deflection_from_M(x_m, M, E, I) ==
    CHOOSE r \in {IntegrateTwice(x_m, s[1], s[2]) :
                     s \in {<<Array([k \in 1..Len(x_m) |->
                                        RDiv(M[k], RMul(E, I))]),
                              RSub(x_m[2], x_m[1])>>}} : TRUE

\* ------------------------------------------------------------------------
\* LoadingInputs (inputs/loading.py)
\* ------------------------------------------------------------------------
wind_load_n_per_mm(li) ==
    IF ~li.include_wind THEN Zero
    ELSE RMul(RMul(li.wind_pressure_kpa, li.bay_width_mm), <<1, 1000>>)

\* the barrier load as the older revision took it: kN/m read as N/mm
barrier_load_n_per_mm(li) ==
    IF ~li.include_barrier THEN Zero
    ELSE li.barrier_load_kn_per_m

barrier_load_n(li) ==
    IF ~li.include_barrier THEN Zero
    ELSE RMul(li.barrier_load_kn_per_m, li.bay_width_mm)

\* TRUE when no Load constructor called by to_loads raises
to_loads_ok(li) ==
    /\ li.include_wind =>
         LoadValid("WIND", wind_load_n_per_mm(li), "uniform", None)
    /\ li.include_barrier =>
         LoadValid("BARRIER", barrier_load_n(li), "point", li.barrier_height_mm)

to_loads(li) ==
    (IF li.include_wind
     THEN <<Load("WIND", wind_load_n_per_mm(li), "uniform", None)>>
     ELSE <<>>)
    \o
    (IF li.include_barrier
     THEN <<Load("BARRIER", barrier_load_n(li), "point", li.barrier_height_mm)>>
     ELSE <<>>)

\* ------------------------------------------------------------------------
\* LoadCombination (inputs/load_cases.py)
\* ------------------------------------------------------------------------
\* a LoadCombination check that forgets the wind factor
LoadCombinationValid_BarrierOnly(name, wind_factor, barrier_factor, case_type) ==
    /\ ~RLt(barrier_factor, Zero)
    /\ case_type \in {"ULS", "SLS"}

\* LoadCombination.__post_init__: TRUE when the constructor raises no
\* ValueError
LoadCombinationValid(name, wind_factor, barrier_factor, case_type) ==
    /\ ~RLt(wind_factor, Zero)
    /\ ~RLt(barrier_factor, Zero)
    /\ case_type \in {"ULS", "SLS"}

LoadCombination(name, wind_factor, barrier_factor, case_type) ==
    [name |-> name, wind_factor |-> wind_factor,
     barrier_factor |-> barrier_factor, case_type |-> case_type]

\* ------------------------------------------------------------------------
\* LoadCaseSet and its DataFrames (inputs/load_cases.py)
\* ------------------------------------------------------------------------
Columns == {"Load Case", "Wind Factor", "Barrier Factor"}

\* LoadCombination.to_dict: the case type is not part of the dictionary
to_dict(c) ==
    [col \in Columns |->
        IF col = "Load Case" THEN c.name
        ELSE IF col = "Wind Factor" THEN c.wind_factor
        ELSE c.barrier_factor]

\* from_dict reading the two factors from each other's column
from_dict_Swapped(data, case_type) ==
    [name |-> data["Load Case"], wind_factor |-> data["Barrier Factor"],
     barrier_factor |-> data["Wind Factor"], case_type |-> case_type]

\* LoadCombination.from_dict
from_dict(data, case_type) ==
    [name |-> data["Load Case"], wind_factor |-> data["Wind Factor"],
     barrier_factor |-> data["Barrier Factor"], case_type |-> case_type]

\* pd.DataFrame(list of dictionaries): one column per key
DataFrame(rows) ==
    [col \in Columns |-> Array([k \in 1..Len(rows) |-> rows[k][col]])]

\* df.iterrows() with row.to_dict(): one dictionary per row
iterrows(df) ==
    Array([k \in 1..Len(df["Load Case"]) |-> [col \in Columns |-> df[col][k]]])

default_uls_dataframe ==
    [col \in Columns |->
        IF col = "Load Case"
        THEN <<"ULS 1: 1.5W + 0.75L", "ULS 2: 0.75W + 1.5L", "ULS 3: 1.5W",
               "ULS 4: 1.5L">>
        ELSE IF col = "Wind Factor"
        THEN <<<<3, 2>>, <<3, 4>>, <<3, 2>>, Zero>>
        ELSE <<<<3, 4>>, <<3, 2>>, Zero, <<3, 2>>>>]

default_sls_dataframe ==
    [col \in Columns |->
        IF col = "Load Case" THEN <<"SLS 1: W", "SLS 2: L">>
        ELSE IF col = "Wind Factor" THEN <<R(1), Zero>>
        ELSE <<Zero, R(1)>>]

get_uls_dataframe(s) ==
    IF s.uls_cases = <<>> THEN default_uls_dataframe
    ELSE DataFrame(Array([k \in 1..Len(s.uls_cases) |-> to_dict(s.uls_cases[k])]))

get_sls_dataframe(s) ==
    IF s.sls_cases = <<>> THEN default_sls_dataframe
    ELSE DataFrame(Array([k \in 1..Len(s.sls_cases) |-> to_dict(s.sls_cases[k])]))

\* the lists update_from_dataframes assigns
CasesFrom(df, case_type) ==
    Array([k \in 1..Len(df["Load Case"]) |-> from_dict(iterrows(df)[k], case_type)])

update_from_dataframes(s, uls_df, sls_df) ==
    [uls_cases |-> CasesFrom(uls_df, "ULS"), sls_cases |-> CasesFrom(sls_df, "SLS")]

\* ------------------------------------------------------------------------
\* Load-case governor (analysis/beam_analysis.py)
\* ------------------------------------------------------------------------
\* str(load.kind).upper(), as the sequence of its characters
UpperStr(kind) ==
    <<"L", "O", "A", "D", "K", "I", "N", "D", ".">> \o
    (CASE kind = "WIND" -> <<"W", "I", "N", "D">>
       [] kind = "BARRIER" -> <<"B", "A", "R", "R", "I", "E", "R">>
       [] kind = "DEAD" -> <<"D", "E", "A", "D">>)

\* sub in s, for two strings
Contains(sub, s) ==
    \E i \in 0..(Len(s) - Len(sub)) : SubSeq(s, i + 1, i + Len(sub)) = sub

\* FactoredMagnitude with the loads of no matching kind factored as wind
FactoredMagnitude_AllFactored(load, wind_factor, barrier_factor) ==
    IF Contains(<<"B", "A", "R", "R", "I", "E", "R">>, UpperStr(load.kind))
    THEN RMul(load.magnitude, barrier_factor)
    ELSE RMul(load.magnitude, wind_factor)

\* the magnitude of one factored copy
FactoredMagnitude(load, wind_factor, barrier_factor) ==
    IF Contains(<<"W", "I", "N", "D">>, UpperStr(load.kind))
    THEN RMul(load.magnitude, wind_factor)
    ELSE IF Contains(<<"B", "A", "R", "R", "I", "E", "R">>, UpperStr(load.kind))
    THEN RMul(load.magnitude, barrier_factor)
    ELSE load.magnitude

apply_load_factors(loads, wind_factor, barrier_factor) ==
    Array([k \in 1..Len(loads) |->
              [loads[k] EXCEPT !.magnitude =
                  FactoredMagnitude(loads[k], wind_factor, barrier_factor)]])

\* apply_load_factors working on the objects it is given, no deepcopy
apply_load_factors_InPlace(loads, wind_factor, barrier_factor) ==
    [loads |-> apply_load_factors(loads, wind_factor, barrier_factor),
     returned |-> apply_load_factors(loads, wind_factor, barrier_factor),
     fresh |-> FALSE]

\* a call of apply_load_factors as its caller sees it: the list passed in
\* as the call leaves it (only the deep copies are written to), the list
\* returned, and whether the objects returned are new ones
apply_load_factors_call(loads, wind_factor, barrier_factor) ==
    [loads |-> loads,
     returned |-> apply_load_factors(loads, wind_factor, barrier_factor),
     fresh |-> TRUE]

\* results['cases'][name] = rec
DictSet(d, name, rec) ==
    [n \in (DOMAIN d) \cup {name} |-> IF n = name THEN rec ELSE d[n]]

EmptyDict == [n \in {} |-> 0]

\* ULSInit with the governing values starting below zero, so that a case
\* of zero moment and shear becomes governing
ULSInit_NegativeBaseline(a) ==
    [fn |-> "analyze_uls_cases",
     base_loads |-> to_loads(a.loading_inputs),
     i |-> 0,
     cases |-> EmptyDict,
     M_max_overall |-> R(-1), M_max_case |-> None,
     V_max_overall |-> R(-1), V_max_case |-> None]

\* the locals of analyze_uls_cases before its loop
ULSInit(a) ==
    [fn |-> "analyze_uls_cases",
     base_loads |-> to_loads(a.loading_inputs),
     i |-> 0,
     cases |-> EmptyDict,
     M_max_overall |-> Zero, M_max_case |-> None,
     V_max_overall |-> Zero, V_max_case |-> None]

\* TrackM with >= in place of >: the last case reaching the maximum governs
TrackM_NonStrict(l, M_max, name) ==
    IF RGe(M_max, l.M_max_overall)
    THEN [overall |-> M_max, case |-> name]
    ELSE [overall |-> l.M_max_overall, case |-> l.M_max_case]

\* the update of the governing moment record
TrackM(l, M_max, name) ==
    IF RGt(M_max, l.M_max_overall)
    THEN [overall |-> M_max, case |-> name]
    ELSE [overall |-> l.M_max_overall, case |-> l.M_max_case]

\* TrackV with every case replacing the record: the last case governs
TrackV_LastWins(l, V_max, name) ==
    [overall |-> V_max, case |-> name]

\* TrackV with >= in place of >: the last case reaching the maximum governs
TrackV_NonStrict(l, V_max, name) ==
    IF RGe(V_max, l.V_max_overall)
    THEN [overall |-> V_max, case |-> name]
    ELSE [overall |-> l.V_max_overall, case |-> l.V_max_case]

\* the update of the governing shear record
TrackV(l, V_max, name) ==
    IF RGt(V_max, l.V_max_overall)
    THEN [overall |-> V_max, case |-> name]
    ELSE [overall |-> l.V_max_overall, case |-> l.V_max_case]

\* the end of an iteration: the case is stored and the governing records updated
ULSStore(l, name, rec, gm, gv) ==
    [l EXCEPT !.i = l.i + 1,
              !.cases = DictSet(l.cases, name, rec),
              !.M_max_overall = gm.overall, !.M_max_case = gm.case,
              !.V_max_overall = gv.overall, !.V_max_case = gv.case]

\* an iteration once the maxima of |M| and |V| are known
ULSMaxima(l, name, analysis, M_abs, V_abs, M_max, V_max) ==
    CHOOSE r \in {ULSStore(l, name, s[1], s[2], s[3]) :
                     s \in {<<[x_m |-> analysis.x_m, V_N |-> analysis.V,
                               M_Nm |-> analysis.M,
                               RA_N |-> analysis.RA, RB_N |-> analysis.RB,
                               M_max_Nm |-> M_max, V_max_N |-> V_max,
                               x_Mmax_m |-> analysis.x_m[ArgMax(M_abs)],
                               x_Vmax_m |-> analysis.x_m[ArgMax(V_abs)]],
                              TrackM(l, M_max, name),
                              TrackV(l, V_max, name)>>}} : TRUE

\* an iteration once |M| and |V| are known
ULSAbs(l, name, analysis, M_abs, V_abs) ==
    CHOOSE r \in {ULSMaxima(l, name, analysis, M_abs, V_abs, s[1], s[2]) :
                     s \in {<<RMax(M_abs), RMax(V_abs)>>}} : TRUE

\* an iteration once the solver has returned
ULSAnalysed(l, name, analysis) ==
    CHOOSE r \in {ULSAbs(l, name, analysis, s[1], s[2]) :
                     s \in {<<AbsArr(analysis.M), AbsArr(analysis.V)>>}} : TRUE

\* an iteration once the loads are factored
ULSFactored(a, l, name, factored) ==
    CHOOSE r \in {ULSAnalysed(l, name, analysis) :
                     analysis \in {compute_wind_barrier_uniform_and_point(
                                       a.geom.span_mm, factored,
                                       a.n_points)}} : TRUE

\* an iteration on one case
ULSOnCase(a, l, case) ==
    CHOOSE r \in {ULSFactored(a, [l EXCEPT !.base_loads = call.loads],
                               case.name, call.returned) :
                     call \in {apply_load_factors_call(
                                   l.base_loads, case.wind_factor,
                                   case.barrier_factor)}} : TRUE

\* one iteration of the loop over load_case_set.uls_cases
ULSBody(a, l) == ULSOnCase(a, l, a.load_case_set.uls_cases[l.i + 1])

\* the value analyze_uls_cases returns
ULSResult(l) ==
    [cases |-> l.cases,
     governing |-> [M_max |-> <<l.M_max_case, l.M_max_overall>>,
                    V_max |-> <<l.V_max_case, l.V_max_overall>>,
                    case_M |-> l.M_max_case,
                    case_V |-> l.V_max_case]]

\* the loop of analyze_uls_cases run to its end
RECURSIVE ULSLoop(_, _)
ULSLoop(a, l) ==
    IF l.i = Len(a.load_case_set.uls_cases) THEN l ELSE ULSLoop(a, ULSBody(a, l))

analyze_uls_cases(a) == ULSResult(ULSLoop(a, ULSInit(a)))

\* SLSInit with the governing I_req starting below zero
SLSInit_NegativeBaseline(a) ==
    [fn |-> "analyze_sls_deflection_requirement",
     base_loads |-> to_loads(a.loading_inputs),
     v_limit_m |-> RDiv(a.deflection_limit_mm, R(1000)),
     i |-> 0,
     cases |-> EmptyDict,
     I_req_max |-> R(-1), I_req_case |-> None]

\* SLSInit with the limit left in mm, not divided by 1000
SLSInit_LimitInMm(a) ==
    [fn |-> "analyze_sls_deflection_requirement",
     base_loads |-> to_loads(a.loading_inputs),
     v_limit_m |-> a.deflection_limit_mm,
     i |-> 0,
     cases |-> EmptyDict,
     I_req_max |-> Zero, I_req_case |-> None]

\* the locals of analyze_sls_deflection_requirement before its loop
SLSInit(a) ==
    [fn |-> "analyze_sls_deflection_requirement",
     base_loads |-> to_loads(a.loading_inputs),
     v_limit_m |-> RDiv(a.deflection_limit_mm, R(1000)),
     i |-> 0,
     cases |-> EmptyDict,
     I_req_max |-> Zero, I_req_case |-> None]

\* RequiredI with the quotient inverted
RequiredI_Inverted(v_limit_m, v_unit_max) ==
    IF RGt(v_limit_m, Zero) /\ RGt(v_unit_max, Zero)
    THEN RDiv(v_limit_m, v_unit_max)
    ELSE Zero

\* I_req of one case
RequiredI(v_limit_m, v_unit_max) ==
    IF RGt(v_limit_m, Zero) /\ RGt(v_unit_max, Zero)
    THEN RDiv(v_unit_max, v_limit_m)
    ELSE Zero

\* the update of the governing I_req record
TrackI(l, I_req, name) ==
    IF RGt(I_req, l.I_req_max)
    THEN [overall |-> I_req, case |-> name]
    ELSE [overall |-> l.I_req_max, case |-> l.I_req_case]

\* the end of an iteration: the case is stored and the governing record updated
SLSStore(l, name, I_req, v_unit_max, gi) ==
    [l EXCEPT !.i = l.i + 1,
              !.cases = DictSet(l.cases, name,
                                [I_req_m4 |-> I_req,
                                 v_unit_max_m |-> v_unit_max]),
              !.I_req_max = gi.overall,
              !.I_req_case = gi.case]

\* an iteration once I_req is known
SLSRequired(l, name, I_req, v_unit_max) ==
    CHOOSE r \in {SLSStore(l, name, I_req, v_unit_max, gi) :
                     gi \in {TrackI(l, I_req, name)}} : TRUE

\* an iteration once the largest unit deflection is known
SLSUnitMax(l, name, v_unit_max) ==
    CHOOSE r \in {SLSRequired(l, name, I_req, v_unit_max) :
                     I_req \in {RequiredI(l.v_limit_m, v_unit_max)}} : TRUE

\* an iteration once the deflection with I = 1.0 is known
SLSDeflected(l, name, v_unit) ==
    CHOOSE r \in {SLSUnitMax(l, name, v_unit_max) :
                     v_unit_max \in {RMax(AbsArr(v_unit))}} : TRUE

\* an iteration once the solver has returned
SLSAnalysed(a, l, name, analysis) ==
    CHOOSE r \in {SLSDeflected(l, name, d.v) :
                     d \in {compute_deflection_from_M(
                                analysis.x_m, analysis.M, a.E, R(1))}} : TRUE

\* an iteration once the loads are factored
SLSFactored(a, l, name, factored) ==
    CHOOSE r \in {SLSAnalysed(a, l, name, analysis) :
                     analysis \in {compute_wind_barrier_uniform_and_point(
                                       a.geom.span_mm, factored,
                                       a.n_points)}} : TRUE

\* an iteration on one case
SLSOnCase(a, l, case) ==
    CHOOSE r \in {SLSFactored(a, [l EXCEPT !.base_loads = call.loads],
                               case.name, call.returned) :
                     call \in {apply_load_factors_call(
                                   l.base_loads, case.wind_factor,
                                   case.barrier_factor)}} : TRUE

\* one iteration of the loop over load_case_set.sls_cases
SLSBody(a, l) == SLSOnCase(a, l, a.load_case_set.sls_cases[l.i + 1])

\* the value analyze_sls_deflection_requirement returns
SLSResult(a, l) ==
    [cases |-> l.cases,
     governing |-> [I_req_m4 |-> l.I_req_max,
                    case |-> l.I_req_case,
                    v_limit_m |-> l.v_limit_m,
                    v_limit_mm |-> a.deflection_limit_mm]]

\* the loop of analyze_sls_deflection_requirement run to its end
RECURSIVE SLSLoop(_, _)
SLSLoop(a, l) ==
    IF l.i = Len(a.load_case_set.sls_cases) THEN l ELSE SLSLoop(a, SLSBody(a, l))

analyze_sls_deflection_requirement(a) == SLSResult(a, SLSLoop(a, SLSInit(a)))

\* ------------------------------------------------------------------------
\* Required section modulus
\* ------------------------------------------------------------------------
\* float('inf'): 1/0, which is no <<num, den>> with den > 0
Inf == <<1, 0>>

\* compute_required_section_modulus with 0.0 as the value for sigma <= 0
compute_required_section_modulus_Zero(M_max_Nm, sigma_allow_Pa) ==
    IF RLe(sigma_allow_Pa, Zero) THEN Zero
    ELSE RDiv(M_max_Nm, sigma_allow_Pa)

compute_required_section_modulus(M_max_Nm, sigma_allow_Pa) ==
    IF RLe(sigma_allow_Pa, Zero) THEN Inf
    ELSE RDiv(M_max_Nm, sigma_allow_Pa)

\* ------------------------------------------------------------------------
\* Closed-form calculations of the application (main.py)
\* ------------------------------------------------------------------------
\* 'elif L < 7500' without the 5 of '5 + L / 300'
calculate_deflection_limit_NoOffset(L) ==
    IF RLe(L, R(3000)) THEN RDiv(L, R(200))
    ELSE IF RLt(L, R(7500)) THEN RDiv(L, R(300))
    ELSE RDiv(L, R(250))

calculate_deflection_limit(L) ==
    IF RLe(L, R(3000)) THEN RDiv(L, R(200))
    ELSE IF RLt(L, R(7500)) THEN RAdd(R(5), RDiv(L, R(300)))
    ELSE RDiv(L, R(250))

\* L**2 and L**4
Sq(x) == RMul(x, x)

\* I_req of one case, from its effective loads
SLSCaseIreq(w_eff, F_BL_eff, L, barrier_height, E, defl_limit) ==
    IF RGt(w_eff, Zero) /\ F_BL_eff = Zero
    THEN RDiv(RMul(RMul(R(5), w_eff), Sq(Sq(L))),
              RMul(RMul(R(384), E), defl_limit))
    ELSE IF w_eff = Zero /\ RGt(F_BL_eff, Zero)
    THEN RMul(RDiv(RMul(F_BL_eff, barrier_height),
                   RMul(RMul(R(12), E), defl_limit)),
              RSub(RMul(<<3, 4>>, Sq(L)), Sq(barrier_height)))
    ELSE IF RGt(w_eff, Zero) /\ RGt(F_BL_eff, Zero)
    THEN RDiv(RAdd(RMul(RMul(R(5), w_eff), Sq(Sq(L))),
                   RMul(RMul(RMul(R(32), F_BL_eff), barrier_height),
                        RSub(RMul(<<3, 4>>, Sq(L)), Sq(barrier_height)))),
              RMul(RMul(R(384), E), defl_limit))
    ELSE Zero

\* the body of the loop over load_cases.items()
SLSCaseResult(factors, w, F_BL, L, barrier_height, E, defl_limit) ==
    [I_req_cm4 |-> RDiv(SLSCaseIreq(RMul(factors[1], w), RMul(factors[2], F_BL),
                                    L, barrier_height, E, defl_limit), R(10000)),
     wind_factor |-> factors[1], barrier_factor |-> factors[2]]

\* load_cases is a dict in insertion order: a sequence of <<name, factors>>
\* with distinct names, not empty
calculate_SLS_requirements(load_cases, L, bay, wind_pressure, barrier_load, barrier_height, E, defl_limit) ==
    LET w == RMul(RMul(wind_pressure, <<1, 1000>>), bay)
        F_BL == RMul(barrier_load, bay)
        values == Array([k \in 1..Len(load_cases) |->
                           SLSCaseResult(load_cases[k][2], w, F_BL, L,
                                         barrier_height, E, defl_limit)])
        max_case == ArgMax(Array([k \in 1..Len(values) |-> values[k].I_req_cm4]))
    IN  [results |-> [nm \in {load_cases[k][1] : k \in 1..Len(load_cases)} |->
                        values[CHOOSE k \in 1..Len(load_cases) :
                                   load_cases[k][1] = nm]],
         max_case |-> load_cases[max_case][1],
         max_I_req_cm4 |-> values[max_case].I_req_cm4]

\* ------------------------------------------------------------------------
\* Inputs the calls are made with
\* ------------------------------------------------------------------------
Spans == {R(2000), R(4000)}

\* the solver itself checks nothing: it is also called with spans <= 0
SolverSpans == Spans \cup {Zero, R(-2000)}

Geometries == {[span_mm |-> sp, bay_width_mm |-> R(1000)] : sp \in Spans}

PointCounts == 2..MaxPoints

Magnitudes == {Zero, <<3, 20>>, R(500)}

\* every Load the constructor accepts over the magnitudes above
Loads ==
    {Load(k, m, d, IF k = "BARRIER" THEN R(1100) ELSE None) :
        k \in {"WIND", "BARRIER", "DEAD"}, m \in Magnitudes \ {Zero},
        d \in {"uniform", "point"}}
    \cup {Load("WIND", Zero, "uniform", None)}

SeqsUpTo(S, n) == UNION {[1..k -> S] : k \in 0..n}

LoadLists == SeqsUpTo(Loads, MaxLoads)

LoadingInputsSet ==
    {[include_wind |-> iw, wind_pressure_kpa |-> <<3, 20>>,
      bay_width_mm |-> R(1000),
      include_barrier |-> ib, barrier_load_kn_per_m |-> <<1, 2>>,
      barrier_height_mm |-> R(1100)] : iw \in BOOLEAN, ib \in BOOLEAN}

Names == {"A", "B"}

FactorPairs == {<<<<3, 2>>, <<3, 4>>>>, <<Zero, <<3, 2>>>>}

\* the factor pairs a combination is asked for with, valid or not
SignedFactorPairs == FactorPairs \cup {<<R(-1), <<3, 2>>>>}

\* the combinations of the given names that the constructor lets exist
CombinationsNamed(names, case_type) ==
    {c \in {LoadCombination(nm, fp[1], fp[2], case_type) :
               nm \in names, fp \in SignedFactorPairs} :
        LoadCombinationValid(c.name, c.wind_factor, c.barrier_factor,
                             c.case_type)}

Combinations(case_type) == CombinationsNamed(Names, case_type)

\* the lists of three cases named "A", "B" and "C" in some order
ThreeNamedLists(case_type) ==
    {cs \in [1..3 -> CombinationsNamed(Names \cup {"C"}, case_type)] :
        \A i, j \in 1..3 : i # j => cs[i].name # cs[j].name}

SLSCaseLists == SeqsUpTo(Combinations("SLS"), MaxCases) \cup ThreeNamedLists("SLS")

\* LoadCaseSet.create_en1990_defaults
EN1990_uls_cases ==
    <<LoadCombination("ULS 1: 1.5W + 0.75L", <<3, 2>>, <<3, 4>>, "ULS"),
      LoadCombination("ULS 2: 0.75W + 1.5L", <<3, 4>>, <<3, 2>>, "ULS"),
      LoadCombination("ULS 3: 1.5W", <<3, 2>>, Zero, "ULS"),
      LoadCombination("ULS 4: 1.5L", Zero, <<3, 2>>, "ULS")>>

EN1990_sls_cases ==
    <<LoadCombination("SLS 1: W", R(1), Zero, "SLS"),
      LoadCombination("SLS 2: L", Zero, R(1), "SLS")>>

ULSCaseLists ==
    SeqsUpTo(Combinations("ULS"), MaxCases) \cup ThreeNamedLists("ULS")
        \cup {EN1990_uls_cases}

Moduli == {R(7)}

Inertias == {R(1), <<1, 2>>, R(3)}

DeflectionLimits == {R(-10), Zero, R(15)}

MomentValues == {R(-1), Zero, R(2)}

\* wind_factor and barrier_factor of apply_load_factors
Factors == {Zero, <<3, 4>>, <<3, 2>>}

\* M_max_Nm and sigma_allow_Pa of compute_required_section_modulus
GoverningMoments == {R(-300), Zero, <<3, 40>>, R(300)}

Stresses == {R(-160), Zero, <<1, 2>>, R(160)}

\* what the constructors are called with, valid or not
SignedMagnitudes == {R(-1), Zero, R(500)}

Distributions == {"uniform", "point", "triangular"}

Heights == {None, R(-100), Zero, R(1100)}

BarrierHeights == {R(-100), Zero, R(1100)}

BayWidths == {R(-1000), Zero, R(1000)}

SignedModuli == {R(-70), Zero, R(70)}

Densities == {R(-2700), Zero, R(2700)}

\* the loading inputs to_loads is called with, valid or not
ToLoadsInputs ==
    {[include_wind |-> iw, wind_pressure_kpa |-> wp,
      bay_width_mm |-> bw,
      include_barrier |-> ib, barrier_load_kn_per_m |-> bl,
      barrier_height_mm |-> h] :
        iw \in BOOLEAN, wp \in {R(-1), <<3, 20>>, R(1)},
        bw \in {R(1000), R(3000)}, ib \in BOOLEAN,
        bl \in {<<1, 2>>, <<37, 50>>}, h \in BarrierHeights}

\* the load case sets the DataFrame methods are called on
LoadCaseSets ==
    {[uls_cases |-> u, sls_cases |-> s] :
        u \in ULSCaseLists, s \in SeqsUpTo(Combinations("SLS"), 1)
                                    \cup {EN1990_sls_cases}}

\* what main.py's calculations are called with. Lengths (L, bay,
\* barrier_height, defl_limit) are in units of 500 mm, the shortest mullion
\* of the UI, so that L**4 stays a small number: 1, 2, 8 and 30 are 500,
\* 1000, 4000 and 15000 mm, and a barrier height of 4 is 2000 mm. The loads
\* and E are in the force unit that makes them small numbers
MullionLengths == {R(1), R(2), R(8), R(30)}

MainBarrierHeights == {Zero, R(1), R(2), R(4)}

WindPressures == {Zero, R(1000)}

BarrierLoads == {Zero, R(1)}

MainFactors == {<<3, 5>>, R(1)}

\* the lengths, in mm, calculate_deflection_limit is called with
LimitLengths ==
    {R(500), R(2999), R(3000), R(3001), R(4000), R(7499), R(7500), R(7501),
     R(15000)}

NoFrame == [fn |-> "none"]

\* ------------------------------------------------------------------------
\* State machine
\* ------------------------------------------------------------------------
Init ==
    /\ pc = "idle"
    /\ args = NoFrame
    /\ loc = NoFrame
    /\ ret = NoFrame

\* a call of the beam solver on its own
CallSolver ==
    /\ pc = "idle"
    /\ \E sp \in SolverSpans, loads \in LoadLists, n \in PointCounts :
         ret' = [fn |-> "compute_wind_barrier_uniform_and_point",
                 args |-> [span_mm |-> sp, loads |-> loads, n_points |-> n],
                 value |-> compute_wind_barrier_uniform_and_point(sp, loads, n)]
    /\ pc' = "done"
    /\ UNCHANGED <<args, loc>>

\* a call of the deflection integrator on its own
CallDeflection ==
    /\ pc = "idle"
    /\ \E sp \in Spans, n \in PointCounts, E \in Moduli, I \in Inertias :
         \E M \in [1..n -> MomentValues] :
           LET x_m == Linspace(RDiv(sp, R(1000)), n)
           IN  ret' = [fn |-> "compute_deflection_from_M",
                       args |-> [x_m |-> x_m, M |-> M, E |-> E, I |-> I],
                       value |-> compute_deflection_from_M(x_m, M, E, I)]
    /\ pc' = "done"
    /\ UNCHANGED <<args, loc>>

\* analyze_uls_cases up to its loop
StartULS ==
    /\ pc = "idle"
    /\ \E g \in Geometries, li \in LoadingInputsSet,
          cs \in ULSCaseLists, n \in {3, MaxPoints} :
         /\ to_loads_ok(li)
         /\ args' = [fn |-> "analyze_uls_cases", geom |-> g,
                     loading_inputs |-> li,
                     load_case_set |-> [uls_cases |-> cs,
                                        sls_cases |-> EN1990_sls_cases],
                     n_points |-> n]
         /\ loc' = ULSInit(args')
    /\ pc' = "uls_loop"
    /\ ret' = NoFrame

\* one iteration of its loop
ULSCase ==
    /\ pc = "uls_loop"
    /\ loc.i < Len(args.load_case_set.uls_cases)
    /\ loc' = ULSBody(args, loc)
    /\ UNCHANGED <<pc, args, ret>>

\* the end of its loop and its return
ULSReturn ==
    /\ pc = "uls_loop"
    /\ loc.i = Len(args.load_case_set.uls_cases)
    /\ ret' = [fn |-> "analyze_uls_cases", args |-> args,
               value |-> ULSResult(loc)]
    /\ pc' = "done"
    /\ args' = NoFrame
    /\ loc' = NoFrame

\* analyze_sls_deflection_requirement up to its loop
StartSLS ==
    /\ pc = "idle"
    /\ \E g \in Geometries, li \in LoadingInputsSet,
          cs \in SLSCaseLists, E \in Moduli, dl \in DeflectionLimits,
          n \in {3, MaxPoints} :
         /\ to_loads_ok(li)
         /\ args' = [fn |-> "analyze_sls_deflection_requirement", geom |-> g,
                     loading_inputs |-> li,
                     load_case_set |-> [uls_cases |-> EN1990_uls_cases,
                                        sls_cases |-> cs],
                     E |-> E, deflection_limit_mm |-> dl,
                     n_points |-> n]
         /\ loc' = SLSInit(args')
    /\ pc' = "sls_loop"
    /\ ret' = NoFrame

\* one iteration of its loop
SLSCase ==
    /\ pc = "sls_loop"
    /\ loc.i < Len(args.load_case_set.sls_cases)
    /\ loc' = SLSBody(args, loc)
    /\ UNCHANGED <<pc, args, ret>>

\* the end of its loop and its return
SLSReturn ==
    /\ pc = "sls_loop"
    /\ loc.i = Len(args.load_case_set.sls_cases)
    /\ ret' = [fn |-> "analyze_sls_deflection_requirement", args |-> args,
               value |-> SLSResult(args, loc)]
    /\ pc' = "done"
    /\ args' = NoFrame
    /\ loc' = NoFrame

\* a call of compute_required_section_modulus
CallSectionModulus ==
    /\ pc = "idle"
    /\ \E M_max \in GoverningMoments, sigma \in Stresses :
         ret' = [fn |-> "compute_required_section_modulus",
                 args |-> [M_max_Nm |-> M_max, sigma_allow_Pa |-> sigma],
                 value |-> compute_required_section_modulus(M_max, sigma)]
    /\ pc' = "done"
    /\ UNCHANGED <<args, loc>>

\* a call of apply_load_factors on its own
CallApplyLoadFactors ==
    /\ pc = "idle"
    /\ \E loads \in LoadLists, wf \in Factors, bf \in Factors :
         \E call \in {apply_load_factors_call(loads, wf, bf)} :
           ret' = [fn |-> "apply_load_factors",
                   args |-> [loads |-> loads, wind_factor |-> wf,
                             barrier_factor |-> bf],
                   loads_after |-> call.loads,
                   fresh |-> call.fresh,
                   value |-> call.returned]
    /\ pc' = "done"
    /\ UNCHANGED <<args, loc>>

\* Load(kind, magnitude, distribution, height_mm)
NewLoad ==
    /\ pc = "idle"
    /\ \E k \in {"WIND", "BARRIER", "DEAD"}, mg \in SignedMagnitudes,
          d \in Distributions, h \in Heights :
         ret' = Constructed("Load",
                            [kind |-> k, magnitude |-> mg,
                             distribution |-> d, height_mm |-> h],
                            LoadValid(k, mg, d, h), Load(k, mg, d, h))
    /\ pc' = "done"
    /\ UNCHANGED <<args, loc>>

\* Geometry(span_mm, bay_width_mm)
NewGeometry ==
    /\ pc = "idle"
    /\ \E sp \in SolverSpans, bw \in BayWidths :
         ret' = Constructed("Geometry",
                            [span_mm |-> sp, bay_width_mm |-> bw],
                            GeometryValid(sp, bw), Geometry(sp, bw))
    /\ pc' = "done"
    /\ UNCHANGED <<args, loc>>

\* Material(material_type, grade, E, density, fy)
NewMaterial ==
    /\ pc = "idle"
    /\ \E E \in SignedModuli, rho \in Densities, fy \in Stresses :
         ret' = Constructed("Material",
                            [material_type |-> "Aluminium", grade |-> "Custom",
                             E |-> E, density |-> rho, fy |-> fy],
                            MaterialValid(E, rho, fy),
                            Material("Aluminium", "Custom", E, rho, fy))
    /\ pc' = "done"
    /\ UNCHANGED <<args, loc>>

\* LoadingInputs.to_loads on its own: a ValueError of a Load constructor
\* passes through it
CallToLoads ==
    /\ pc = "idle"
    /\ \E li \in ToLoadsInputs :
         ret' = Constructed("to_loads", li, to_loads_ok(li), to_loads(li))
    /\ pc' = "done"
    /\ UNCHANGED <<args, loc>>

Next ==
    \/ CallSolver
    \/ CallDeflection
    \/ StartULS
    \/ ULSCase
    \/ ULSReturn
    \/ StartSLS
    \/ SLSCase
    \/ SLSReturn
    \/ CallSectionModulus
    \/ CallApplyLoadFactors
    \/ NewLoad
    \/ NewGeometry
    \/ NewMaterial
    \/ CallToLoads

Spec == Init /\ [][Next]_vars

\* s.update_from_dataframes(s.get_uls_dataframe(), s.get_sls_dataframe())
CallRoundTrip ==
    /\ pc = "idle"
    /\ \E s \in LoadCaseSets :
         \E dfs \in {<<get_uls_dataframe(s), get_sls_dataframe(s)>>} :
           ret' = [fn |-> "update_from_dataframes",
                   args |-> [self |-> s, uls_df |-> dfs[1], sls_df |-> dfs[2]],
                   value |-> update_from_dataframes(s, dfs[1], dfs[2])]
    /\ pc' = "done"
    /\ UNCHANGED <<args, loc>>

\* calculate_SLS_requirements for a combined case and the wind-only and
\* barrier-only cases of the same factors
CallSLSRequirements ==
    /\ pc = "idle"
    /\ \E L \in MullionLengths, h \in MainBarrierHeights,
          wp \in WindPressures, bl \in BarrierLoads,
          wf \in MainFactors, bf \in MainFactors :
         \E a \in {[load_cases |-> <<<<"W+L", <<wf, bf>>>>,
                                      <<"W", <<wf, Zero>>>>,
                                      <<"L", <<Zero, bf>>>>>>,
                     L |-> L, bay |-> R(6), wind_pressure |-> wp,
                     barrier_load |-> bl, barrier_height |-> h,
                     E |-> R(70), defl_limit |-> RDiv(L, R(200))]} :
           ret' = [fn |-> "calculate_SLS_requirements", args |-> a,
                   value |-> calculate_SLS_requirements(
                                 a.load_cases, a.L, a.bay, a.wind_pressure,
                                 a.barrier_load, a.barrier_height, a.E,
                                 a.defl_limit)]
    /\ pc' = "done"
    /\ UNCHANGED <<args, loc>>

\* calculate_deflection_limit(L)
CallDeflectionLimit ==
    /\ pc = "idle"
    /\ \E L \in LimitLengths :
         ret' = [fn |-> "calculate_deflection_limit", args |-> [L |-> L],
                 value |-> calculate_deflection_limit(L)]
    /\ pc' = "done"
    /\ UNCHANGED <<args, loc>>

\* the closed-form calculations of main.py
MainNext ==
    \/ CallSLSRequirements
    \/ CallDeflectionLimit

MainSpec == Init /\ [][MainNext]_vars

\* the solver and the two analyses built on it
AnalysisNext ==
    \/ CallSolver
    \/ StartULS
    \/ ULSCase
    \/ ULSReturn
    \/ StartSLS
    \/ SLSCase
    \/ SLSReturn

AnalysisSpec == Init /\ [][AnalysisNext]_vars

\* the entities of the input layer and what is built from them
InputsNext ==
    \/ NewLoad
    \/ NewGeometry
    \/ NewMaterial
    \/ CallToLoads
    \/ CallRoundTrip

InputsSpec == Init /\ [][InputsNext]_vars

\* ------------------------------------------------------------------------
\* What the claims speak of
\* ------------------------------------------------------------------------
SolverDone == pc = "done" /\ ret.fn = "compute_wind_barrier_uniform_and_point"
DeflectionDone == pc = "done" /\ ret.fn = "compute_deflection_from_M"
ULSDone == pc = "done" /\ ret.fn = "analyze_uls_cases"
SLSDone == pc = "done" /\ ret.fn = "analyze_sls_deflection_requirement"

SpanM(span_mm) == RDiv(span_mm, R(1000))

\* the applied load of one Load on a span L (m): w*L in N, or P in N
AppliedLoad(load, L) ==
    IF load.distribution = "uniform"
    THEN RMul(RMul(load.magnitude, R(1000)), L)
    ELSE load.magnitude

TotalApplied(loads, L) == RSum([k \in 1..Len(loads) |-> AppliedLoad(loads[k], L)])

\* both kinds of load have their resultant at midspan, L/2 from B
MomentAboutB(loads, L) ==
    RSum([k \in 1..Len(loads) |-> RMul(AppliedLoad(loads[k], L), RDiv(L, R(2)))])

\* the solver's result for case number k of a call of one of the analyses
CaseAnalysis(a, case) ==
    compute_wind_barrier_uniform_and_point(
        a.geom.span_mm,
        apply_load_factors(to_loads(a.loading_inputs), case.wind_factor,
                           case.barrier_factor),
        a.n_points)

CaseMmax(a, case) == RMax(AbsArr(CaseAnalysis(a, case).M))
CaseVmax(a, case) == RMax(AbsArr(CaseAnalysis(a, case).V))

CaseDeflection(a, case, I) ==
    compute_deflection_from_M(CaseAnalysis(a, case).x_m, CaseAnalysis(a, case).M,
                              a.E, I)

CaseVUnitMax(a, case) == RMax(AbsArr(CaseDeflection(a, case, R(1)).v))

CaseIreq(a, case) ==
    RequiredI(RDiv(a.deflection_limit_mm, R(1000)), CaseVUnitMax(a, case))

\* the per-case values of a call, in the order of the case list
ULSMs(a) == Array([k \in 1..Len(a.load_case_set.uls_cases) |->
                      CaseMmax(a, a.load_case_set.uls_cases[k])])
ULSVs(a) == Array([k \in 1..Len(a.load_case_set.uls_cases) |->
                      CaseVmax(a, a.load_case_set.uls_cases[k])])
SLSIs(a) == Array([k \in 1..Len(a.load_case_set.sls_cases) |->
                      CaseIreq(a, a.load_case_set.sls_cases[k])])

\* the governing record is the maximum and the first case reaching it
FirstMaxGoverns(cases, values, name, value) ==
    (Len(cases) > 0 /\ RGt(RMax(values), Zero)) =>
        /\ value = RMax(values)
        /\ name = cases[ArgMax(values)].name

\* two cases of different names tie at a positive maximum
TieAtMax(cases, values) ==
    /\ Len(cases) > 1
    /\ RGt(RMax(values), Zero)
    /\ \E j \in 1..Len(cases) :
         /\ j > ArgMax(values)
         /\ values[j] = RMax(values)
         /\ cases[j].name # cases[ArgMax(values)].name

\* ------------------------------------------------------------------------
\* C1: for span > 0 and loads of non-negative magnitude the solver returns
\* RA + RB = the total applied load (sum of w*L and of P) and
\* RA * L = the moment of the applied loads about the right support B.
\* ------------------------------------------------------------------------
C1_Equilibrium ==
    (SolverDone /\ RGt(ret.args.span_mm, Zero)) =>
        LET L == SpanM(ret.args.span_mm)
        IN  /\ RAdd(ret.value.RA, ret.value.RB) = TotalApplied(ret.args.loads, L)
            /\ RMul(ret.value.RA, L) = MomentAboutB(ret.args.loads, L)

\* a uniform and a point load, both positive, have been solved
C1_Witness ==
    /\ SolverDone
    /\ \E j, k \in 1..Len(ret.args.loads) :
         /\ ret.args.loads[j].distribution = "uniform"
         /\ ret.args.loads[k].distribution = "point"
         /\ RGt(ret.args.loads[j].magnitude, Zero)
         /\ RGt(ret.args.loads[k].magnitude, Zero)
    /\ RGt(ret.value.RA, Zero)

\* ------------------------------------------------------------------------
\* C2: when the largest per-case value is positive, the governing value of
\* M_max, of V_max (ULS) and of I_req (SLS) is the maximum of the per-case
\* values and the governing name is that of the lowest-index case reaching
\* it; a later case with an equal value never replaces it.
\* ------------------------------------------------------------------------
C2_FirstMaxGoverns ==
    /\ ULSDone =>
         /\ \A Ms \in {ULSMs(ret.args)} :
              FirstMaxGoverns(ret.args.load_case_set.uls_cases, Ms,
                              ret.value.governing.case_M,
                              ret.value.governing.M_max[2])
         /\ \A Vs \in {ULSVs(ret.args)} :
              FirstMaxGoverns(ret.args.load_case_set.uls_cases, Vs,
                              ret.value.governing.case_V,
                              ret.value.governing.V_max[2])
         /\ ret.value.governing.M_max[1] = ret.value.governing.case_M
         /\ ret.value.governing.V_max[1] = ret.value.governing.case_V
    /\ SLSDone =>
         \A Is \in {SLSIs(ret.args)} :
             FirstMaxGoverns(ret.args.load_case_set.sls_cases, Is,
                             ret.value.governing.case,
                             ret.value.governing.I_req_m4)

\* a ULS run has ended in which a later case of another name ties at the
\* positive maximum moment with the first case reaching it
C2_Witness ==
    /\ ULSDone
    /\ Len(ret.args.load_case_set.uls_cases) = 3
    /\ \E Ms \in {ULSMs(ret.args)} :
         /\ TieAtMax(ret.args.load_case_set.uls_cases, Ms)
         /\ ArgMax(Ms) = 2
    /\ ret.value.governing.case_M = ret.args.load_case_set.uls_cases[2].name

\* ------------------------------------------------------------------------
\* C3 as stated: for every non-empty ULS case list the governing case
\* names for M_max and V_max are not None.
\* ------------------------------------------------------------------------
C3_AsStated ==
    (ULSDone /\ Len(ret.args.load_case_set.uls_cases) > 0) =>
        /\ ret.value.governing.case_M # None
        /\ ret.value.governing.case_V # None

\* C3 amended: the governing case name for M_max (for V_max) is not None
\* exactly when some evaluated case has M_max > 0 (V_max > 0); it is None
\* for an empty list and for a list whose cases all yield zero.
C3_NameIffPositive ==
    ULSDone =>
        /\ \A Ms \in {ULSMs(ret.args)} :
             ret.value.governing.case_M # None <=>
                 \E k \in 1..Len(Ms) : RGt(Ms[k], Zero)
        /\ \A Vs \in {ULSVs(ret.args)} :
             ret.value.governing.case_V # None <=>
                 \E k \in 1..Len(Vs) : RGt(Vs[k], Zero)

\* a ULS run over a non-empty list has ended with every moment and shear zero
C3_Witness ==
    /\ ULSDone
    /\ Len(ret.args.load_case_set.uls_cases) > 0
    /\ \E Ms \in {ULSMs(ret.args)}, Vs \in {ULSVs(ret.args)} :
         \A k \in 1..Len(Ms) : Ms[k] = Zero /\ Vs[k] = Zero
    /\ ret.value.governing.case_M = None
    /\ ret.value.governing.case_V = None

\* ------------------------------------------------------------------------
\* C4: with an empty case list both analyses end without raising and
\* return an empty 'cases' mapping and a governing record whose case name
\* is None and whose value is 0.0.
\* ------------------------------------------------------------------------
C4_EmptyCaseList ==
    /\ (pc = "uls_loop" /\ args.load_case_set.uls_cases = <<>>) => ENABLED ULSReturn
    /\ (pc = "sls_loop" /\ args.load_case_set.sls_cases = <<>>) => ENABLED SLSReturn
    /\ (ULSDone /\ ret.args.load_case_set.uls_cases = <<>>) =>
         /\ DOMAIN ret.value.cases = {}
         /\ ret.value.governing.M_max = <<None, Zero>>
         /\ ret.value.governing.V_max = <<None, Zero>>
         /\ ret.value.governing.case_M = None
         /\ ret.value.governing.case_V = None
    /\ (SLSDone /\ ret.args.load_case_set.sls_cases = <<>>) =>
         /\ DOMAIN ret.value.cases = {}
         /\ ret.value.governing.case = None
         /\ ret.value.governing.I_req_m4 = Zero

\* an SLS run over no case has ended, with loads applied and a positive limit
C4_Witness ==
    /\ SLSDone
    /\ ret.args.load_case_set.sls_cases = <<>>
    /\ ret.args.loading_inputs.include_wind
    /\ RGt(ret.args.deflection_limit_mm, Zero)

\* the loads are one load of the given distribution
SingleLoad(loads, distribution) ==
    Len(loads) = 1 /\ loads[1].distribution = distribution

Odd(n) == n % 2 = 1

\* the index of the sample at midspan, for an odd number of samples
MidIndex(n) == (n + 1) \div 2

\* the last case of the list with this name: the one 'cases' keeps
LastIndex(cases, name) ==
    CHOOSE k \in 1..Len(cases) :
        /\ cases[k].name = name
        /\ \A j \in (k + 1)..Len(cases) : cases[j].name # name

\* ------------------------------------------------------------------------
\* C5 as stated: a single point load P > 0 on an odd number of samples
\* gives M_max = P*L/4 at x = L/2, with V = +P/2 left of midspan and -P/2
\* at midspan and to its right.
\* ------------------------------------------------------------------------
C5_AsStated ==
    (/\ SolverDone
     /\ RGt(ret.args.span_mm, Zero)
     /\ SingleLoad(ret.args.loads, "point")
     /\ RGt(ret.args.loads[1].magnitude, Zero)
     /\ Odd(ret.args.n_points)) =>
        LET L == SpanM(ret.args.span_mm)
            P == ret.args.loads[1].magnitude
            M_abs == AbsArr(ret.value.M)
            mid == MidIndex(ret.args.n_points)
        IN  /\ RMax(M_abs) = RDiv(RMul(P, L), R(4))
            /\ ret.value.x_m[ArgMax(M_abs)] = RDiv(L, R(2))
            /\ \A k \in 1..(mid - 1) : ret.value.V[k] = RDiv(P, R(2))
            /\ \A k \in mid..ret.args.n_points :
                 ret.value.V[k] = RNeg(RDiv(P, R(2)))

\* ------------------------------------------------------------------------
\* C6 as stated: a single uniform load w N/mm on a span > 0 and an odd
\* number of samples
\* gives M_max = (1000 w) L^2 / 8 at x = L/2 and V linear from
\* +(1000 w) L/2 at x = 0 to -(1000 w) L/2 at x = L.
\* ------------------------------------------------------------------------
UniformResult(r, L, w_Npm) ==
    /\ RMax(AbsArr(r.M)) = RDiv(RMul(w_Npm, RMul(L, L)), R(8))
    /\ r.x_m[ArgMax(AbsArr(r.M))] = RDiv(L, R(2))
    /\ \A k \in 1..Len(r.x_m) :
         r.V[k] = RMul(w_Npm, RSub(RDiv(L, R(2)), r.x_m[k]))
    /\ r.V[1] = RDiv(RMul(w_Npm, L), R(2))
    /\ r.V[Len(r.x_m)] = RNeg(RDiv(RMul(w_Npm, L), R(2)))

C6_AsStated ==
    (/\ SolverDone
     /\ RGt(ret.args.span_mm, Zero)
     /\ SingleLoad(ret.args.loads, "uniform")
     /\ Odd(ret.args.n_points)) =>
        UniformResult(ret.value, SpanM(ret.args.span_mm),
                      RMul(ret.args.loads[1].magnitude, R(1000)))

\* C6 amended: the same for a single uniform load w > 0 (with w = 0 the
\* moment is zero everywhere and its maximum is reported at x = 0); for
\* span 4000 mm and w = 0.15 N/mm, M_max = 300 N*m.
C6_UniformLoad ==
    (/\ SolverDone
     /\ RGt(ret.args.span_mm, Zero)
     /\ SingleLoad(ret.args.loads, "uniform")
     /\ RGt(ret.args.loads[1].magnitude, Zero)
     /\ Odd(ret.args.n_points)) =>
        /\ UniformResult(ret.value, SpanM(ret.args.span_mm),
                         RMul(ret.args.loads[1].magnitude, R(1000)))
        /\ (ret.args.span_mm = R(4000) /\ ret.args.loads[1].magnitude = <<3, 20>>)
             => RMax(AbsArr(ret.value.M)) = R(300)

\* span 4000 mm under w = 0.15 N/mm on 5 samples has been solved
C6_Witness ==
    /\ SolverDone
    /\ SingleLoad(ret.args.loads, "uniform")
    /\ ret.args.loads[1].magnitude = <<3, 20>>
    /\ ret.args.span_mm = R(4000)
    /\ ret.args.n_points = 5
    /\ RMax(AbsArr(ret.value.M)) = R(300)

\* ------------------------------------------------------------------------
\* C7: for x[0] = 0 and x[last] = L > 0 and every M, the deflection has
\* v[0] = 0 and v[last] = 0, with C2 = 0 and C1 = -v_raw[last]/L.
\* ------------------------------------------------------------------------
C7_BoundaryConditions ==
    DeflectionDone =>
        LET n == Len(ret.args.x_m)
        IN  /\ ret.value.v[1] = Zero
            /\ ret.value.v[n] = Zero
            /\ ret.value.C2 = Zero
            /\ ret.value.C1 = RNeg(RDiv(ret.value.v_raw[n], ret.args.x_m[n]))

\* a deflection whose raw end value is not zero has been corrected
C7_Witness ==
    /\ DeflectionDone
    /\ ret.value.v_raw[Len(ret.args.x_m)] # Zero
    /\ ret.value.C1 # Zero
    /\ \E k \in 1..Len(ret.args.x_m) : ret.value.v[k] # Zero

\* ------------------------------------------------------------------------
\* C8: with 2*I the integrator returns half the deflection at every sample
\* (so max |v| halves); doubling a positive deflection limit halves every
\* per-case I_req and the governing I_req.
\* ------------------------------------------------------------------------
HalfOfDeflection(d2, d) ==
    /\ \A k \in 1..Len(d.v) : d2.v[k] = RDiv(d.v[k], R(2))
    /\ RMax(AbsArr(d2.v)) = RDiv(RMax(AbsArr(d.v)), R(2))

HalfOfRequirement(r2, r) ==
    /\ DOMAIN r2.cases = DOMAIN r.cases
    /\ \A nm \in DOMAIN r.cases :
         r2.cases[nm].I_req_m4 = RDiv(r.cases[nm].I_req_m4, R(2))
    /\ r2.governing.I_req_m4 = RDiv(r.governing.I_req_m4, R(2))

C8_Linearity ==
    /\ DeflectionDone =>
         HalfOfDeflection(
             compute_deflection_from_M(ret.args.x_m, ret.args.M, ret.args.E,
                                       RMul(R(2), ret.args.I)),
             ret.value)
    /\ (SLSDone /\ RGt(ret.args.deflection_limit_mm, Zero)) =>
         HalfOfRequirement(
             analyze_sls_deflection_requirement(
                 [ret.args EXCEPT !.deflection_limit_mm =
                                      RMul(R(2), ret.args.deflection_limit_mm)]),
             ret.value)

\* a deflection that is not zero has been computed
C8_Witness ==
    /\ DeflectionDone
    /\ RGt(RMax(AbsArr(ret.value.v)), Zero)
    /\ ret.args.I # R(1)

\* ------------------------------------------------------------------------
\* C9: for every SLS case with I_req > 0 the deflection of that case
\* recomputed with I = I_req has a maximum absolute value equal to
\* v_limit_m, i.e. v_max(I=1) / v_max(I=I_req) = I_req.
\* ------------------------------------------------------------------------
RoundTrip(a, case, rec, v_limit_m) ==
    RGt(rec.I_req_m4, Zero) =>
        /\ RMax(AbsArr(CaseDeflection(a, case, rec.I_req_m4).v)) = v_limit_m
        /\ RDiv(rec.v_unit_max_m,
                RMax(AbsArr(CaseDeflection(a, case, rec.I_req_m4).v)))
             = rec.I_req_m4

C9_RoundTrip ==
    SLSDone =>
        \A nm \in DOMAIN ret.value.cases :
            RoundTrip(ret.args,
                      ret.args.load_case_set.sls_cases[
                          LastIndex(ret.args.load_case_set.sls_cases, nm)],
                      ret.value.cases[nm],
                      ret.value.governing.v_limit_m)

\* an SLS run has ended with a case whose I_req is positive and not 1
C9_Witness ==
    /\ SLSDone
    /\ \E nm \in DOMAIN ret.value.cases :
         /\ RGt(ret.value.cases[nm].I_req_m4, Zero)
         /\ ret.value.cases[nm].I_req_m4 # R(1)

\* ------------------------------------------------------------------------
\* C10: each case's I_req is v_unit_max / (deflection_limit_mm / 1000) when
\* the limit and v_unit_max are > 0 and 0 otherwise; with a limit <= 0
\* every I_req is 0, the governing I_req is 0 and the governing name is
\* None, and nothing raises.
\* ------------------------------------------------------------------------
RequirementOf(a, case, rec) ==
    /\ rec.v_unit_max_m = CaseVUnitMax(a, case)
    /\ rec.I_req_m4 =
         IF RGt(a.deflection_limit_mm, Zero) /\ RGt(rec.v_unit_max_m, Zero)
         THEN RDiv(rec.v_unit_max_m, RDiv(a.deflection_limit_mm, R(1000)))
         ELSE Zero

C10_RequiredI ==
    /\ (pc = "sls_loop" /\ RLe(args.deflection_limit_mm, Zero)) =>
         /\ loc.i <= Len(args.load_case_set.sls_cases)
         /\ loc.I_req_max = Zero
         /\ loc.I_req_case = None
         /\ \A nm \in DOMAIN loc.cases : loc.cases[nm].I_req_m4 = Zero
    /\ SLSDone =>
         /\ \A nm \in DOMAIN ret.value.cases :
              RequirementOf(ret.args,
                            ret.args.load_case_set.sls_cases[
                                LastIndex(ret.args.load_case_set.sls_cases, nm)],
                            ret.value.cases[nm])
         /\ RLe(ret.args.deflection_limit_mm, Zero) =>
              /\ \A nm \in DOMAIN ret.value.cases :
                   ret.value.cases[nm].I_req_m4 = Zero
              /\ ret.value.governing.I_req_m4 = Zero
              /\ ret.value.governing.case = None

\* an SLS run with a limit <= 0 has ended over a case that deflects
C10_Witness ==
    /\ SLSDone
    /\ RLe(ret.args.deflection_limit_mm, Zero)
    /\ \E nm \in DOMAIN ret.value.cases :
         RGt(ret.value.cases[nm].v_unit_max_m, Zero)

\* ------------------------------------------------------------------------
\* C11: compute_required_section_modulus returns M_max / sigma_allow when
\* sigma_allow > 0, and the infinite sentinel (not 0) when sigma_allow <= 0,
\* for every M_max.
\* ------------------------------------------------------------------------
SectionModulusDone ==
    pc = "done" /\ ret.fn = "compute_required_section_modulus"

C11_SectionModulus ==
    SectionModulusDone =>
        IF RGt(ret.args.sigma_allow_Pa, Zero)
        THEN /\ ret.value # Inf
             /\ RMul(ret.value, ret.args.sigma_allow_Pa) = ret.args.M_max_Nm
        ELSE /\ ret.value = Inf
             /\ ret.value # Zero

\* the sentinel has been returned for a moment that is not zero
C11_Witness ==
    /\ SectionModulusDone
    /\ RLe(ret.args.sigma_allow_Pa, Zero)
    /\ ret.args.M_max_Nm # Zero
    /\ ret.value = Inf

\* ------------------------------------------------------------------------
\* C12: apply_load_factors returns a list of the same length and order in
\* which every WIND load has magnitude base * wind_factor, every BARRIER
\* load base * barrier_factor and every DEAD load its base magnitude, with
\* kind, distribution and height_mm unchanged.
\* ------------------------------------------------------------------------
ApplyDone == pc = "done" /\ ret.fn = "apply_load_factors"

C12_FactorsByKind ==
    ApplyDone =>
        /\ Len(ret.value) = Len(ret.args.loads)
        /\ \A k \in 1..Len(ret.args.loads) :
             /\ ret.value[k].kind = ret.args.loads[k].kind
             /\ ret.value[k].distribution = ret.args.loads[k].distribution
             /\ ret.value[k].height_mm = ret.args.loads[k].height_mm
             /\ ret.args.loads[k].kind = "WIND" =>
                  ret.value[k].magnitude =
                      RMul(ret.args.loads[k].magnitude, ret.args.wind_factor)
             /\ ret.args.loads[k].kind = "BARRIER" =>
                  ret.value[k].magnitude =
                      RMul(ret.args.loads[k].magnitude, ret.args.barrier_factor)
             /\ ret.args.loads[k].kind = "DEAD" =>
                  ret.value[k].magnitude = ret.args.loads[k].magnitude

\* a DEAD load and a WIND load have been through factors 1.5 and 0.75: the
\* wind load is changed, the dead load is not
C12_Witness ==
    /\ ApplyDone
    /\ Len(ret.args.loads) = 2
    /\ ret.args.loads[1].kind = "DEAD"
    /\ ret.args.loads[2].kind = "WIND"
    /\ ret.args.wind_factor = <<3, 2>>
    /\ ret.args.barrier_factor = <<3, 4>>
    /\ ret.value[1].magnitude = ret.args.loads[1].magnitude
    /\ ret.value[2].magnitude # ret.args.loads[2].magnitude

\* ------------------------------------------------------------------------
\* C13: apply_load_factors leaves the list and the Load objects it is given
\* as they were and returns new objects; so during both analyses the base
\* loads keep the magnitudes to_loads gave them, and what is stored for a
\* case is the solution for the base loads times that case's factors alone.
\* ------------------------------------------------------------------------
StoredIsCaseAnalysis(rec, an) ==
    /\ rec.x_m = an.x_m
    /\ rec.V_N = an.V
    /\ rec.M_Nm = an.M
    /\ rec.RA_N = an.RA
    /\ rec.RB_N = an.RB

C13_NoCompounding ==
    /\ ApplyDone => (ret.loads_after = ret.args.loads /\ ret.fresh)
    /\ pc \in {"uls_loop", "sls_loop"} =>
         loc.base_loads = to_loads(args.loading_inputs)
    /\ ULSDone =>
         \A nm \in DOMAIN ret.value.cases :
           \A an \in {CaseAnalysis(
                          ret.args,
                          ret.args.load_case_set.uls_cases[
                              LastIndex(ret.args.load_case_set.uls_cases, nm)])} :
             StoredIsCaseAnalysis(ret.value.cases[nm], an)
    /\ SLSDone =>
         \A nm \in DOMAIN ret.value.cases :
           ret.value.cases[nm].v_unit_max_m =
               CaseVUnitMax(ret.args,
                            ret.args.load_case_set.sls_cases[
                                LastIndex(ret.args.load_case_set.sls_cases, nm)])

\* a ULS run has ended in which two cases of different names carry the
\* same factors, not 1, on loads that are not zero, and have the same M_max
C13_Witness ==
    /\ ULSDone
    /\ ret.args.loading_inputs.include_wind
    /\ ret.args.loading_inputs.include_barrier
    /\ Len(ret.args.load_case_set.uls_cases) = 2
    /\ ret.args.load_case_set.uls_cases[1].name = "A"
    /\ ret.args.load_case_set.uls_cases[2].name = "B"
    /\ ret.args.load_case_set.uls_cases[1].wind_factor = <<3, 2>>
    /\ ret.args.load_case_set.uls_cases[2].wind_factor = <<3, 2>>
    /\ RGt(ret.value.cases["A"].M_max_Nm, Zero)
    /\ ret.value.cases["B"].M_max_Nm = ret.value.cases["A"].M_max_Nm

\* ------------------------------------------------------------------------
\* C14: for a case list of pairwise distinct names, evaluating the cases in
\* any other order gives the same per-case results and the same governing
\* values; the governing name differs only between cases tied at the
\* maximum.
\* ------------------------------------------------------------------------
DistinctNames(cases) ==
    \A i, j \in 1..Len(cases) : i # j => cases[i].name # cases[j].name

Permuted(cases, p) == [k \in 1..Len(cases) |-> cases[p[k]]]

\* name2 is name, or both are cases holding the governing value
SameOrTied(percase, name2, name, value) ==
    \/ name2 = name
    \/ /\ name2 # None
       /\ name # None
       /\ percase[name2] = value
       /\ percase[name] = value

SameULS(r2, r) ==
    /\ r2.cases = r.cases
    /\ r2.governing.M_max[2] = r.governing.M_max[2]
    /\ r2.governing.V_max[2] = r.governing.V_max[2]
    /\ SameOrTied([nm \in DOMAIN r.cases |-> r.cases[nm].M_max_Nm],
                  r2.governing.case_M, r.governing.case_M, r.governing.M_max[2])
    /\ SameOrTied([nm \in DOMAIN r.cases |-> r.cases[nm].V_max_N],
                  r2.governing.case_V, r.governing.case_V, r.governing.V_max[2])

SameSLS(r2, r) ==
    /\ r2.cases = r.cases
    /\ r2.governing.I_req_m4 = r.governing.I_req_m4
    /\ SameOrTied([nm \in DOMAIN r.cases |-> r.cases[nm].I_req_m4],
                  r2.governing.case, r.governing.case, r.governing.I_req_m4)

C14_OrderIndependent ==
    /\ (ULSDone /\ DistinctNames(ret.args.load_case_set.uls_cases)) =>
         \A p \in Permutations(1..Len(ret.args.load_case_set.uls_cases)) :
           \A r2 \in {analyze_uls_cases(
                          [ret.args EXCEPT !.load_case_set.uls_cases =
                               Permuted(ret.args.load_case_set.uls_cases, p)])} :
             SameULS(r2, ret.value)
    /\ (SLSDone /\ DistinctNames(ret.args.load_case_set.sls_cases)) =>
         \A p \in Permutations(1..Len(ret.args.load_case_set.sls_cases)) :
           \A r2 \in {analyze_sls_deflection_requirement(
                          [ret.args EXCEPT !.load_case_set.sls_cases =
                               Permuted(ret.args.load_case_set.sls_cases, p)])} :
             SameSLS(r2, ret.value)

\* a ULS run over three cases of distinct names has ended, two of them tied
\* at the maximum moment and the third below it
C14_Witness ==
    /\ ULSDone
    /\ Len(ret.args.load_case_set.uls_cases) = 3
    /\ DistinctNames(ret.args.load_case_set.uls_cases)
    /\ \E Ms \in {ULSMs(ret.args)} :
         /\ TieAtMax(ret.args.load_case_set.uls_cases, Ms)
         /\ \E k \in 1..3 : RLt(Ms[k], RMax(Ms))

\* ------------------------------------------------------------------------
\* C15: the solver never reads height_mm: a load list with the heights of
\* its loads replaced gives the same x, V, M, RA and RB, and with a barrier
\* load included the ULS and SLS results do not depend on barrier_height_mm.
\* ------------------------------------------------------------------------
OtherHeights == {None, R(2500)}

WithHeight(loads, h) ==
    [k \in 1..Len(loads) |-> [loads[k] EXCEPT !.height_mm = h]]

WithBarrierHeight(a, h) == [a EXCEPT !.loading_inputs.barrier_height_mm = h]

C15_HeightNotRead ==
    /\ SolverDone =>
         \A h \in OtherHeights :
           compute_wind_barrier_uniform_and_point(
               ret.args.span_mm, WithHeight(ret.args.loads, h),
               ret.args.n_points) = ret.value
    /\ (ULSDone /\ ret.args.loading_inputs.include_barrier) =>
         analyze_uls_cases(WithBarrierHeight(ret.args, R(2500))) = ret.value
    /\ (SLSDone /\ ret.args.loading_inputs.include_barrier) =>
         analyze_sls_deflection_requirement(WithBarrierHeight(ret.args, R(2500)))
             = ret.value

\* a barrier point load of height 1100 mm and magnitude > 0 has been solved
\* on at least three samples
C15_Witness ==
    /\ SolverDone
    /\ ret.args.n_points >= 3
    /\ \E k \in 1..Len(ret.args.loads) :
         /\ ret.args.loads[k].kind = "BARRIER"
         /\ ret.args.loads[k].distribution = "point"
         /\ ret.args.loads[k].height_mm = R(1100)
         /\ RGt(ret.args.loads[k].magnitude, Zero)
    /\ \E k \in 1..ret.args.n_points : ret.value.M[k] # Zero

\* ------------------------------------------------------------------------
\* C16: at every sample x_i, V = RA - (sum of w * x_i over the uniform
\* loads, w in N/m) - (sum of P over the point loads with a <= x_i, a = L/2);
\* a sample exactly at L/2 already has the point loads subtracted.
\* ------------------------------------------------------------------------
\* what one load has taken from the shear at x
ShearTaken(load, L, x) ==
    IF load.distribution = "uniform"
    THEN RMul(RMul(load.magnitude, R(1000)), x)
    ELSE IF RLe(RDiv(L, R(2)), x) THEN load.magnitude ELSE Zero

ShearFormula(r, loads, L, i) ==
    r.V[i] = RSub(r.RA, RSum([k \in 1..Len(loads) |->
                                ShearTaken(loads[k], L, r.x_m[i])]))

C16_ShearAtSamples ==
    SolverDone =>
        /\ \A i \in 1..ret.args.n_points :
             ShearFormula(ret.value, ret.args.loads, SpanM(ret.args.span_mm), i)
        /\ (Odd(ret.args.n_points) /\ ret.args.n_points >= 3) =>
             /\ ret.value.x_m[MidIndex(ret.args.n_points)]
                  = RDiv(SpanM(ret.args.span_mm), R(2))
             /\ ret.value.V[MidIndex(ret.args.n_points)] =
                  RSub(ret.value.RA,
                       RSum([k \in 1..Len(ret.args.loads) |->
                               IF ret.args.loads[k].distribution = "uniform"
                               THEN RMul(RMul(ret.args.loads[k].magnitude, R(1000)),
                                         RDiv(SpanM(ret.args.span_mm), R(2)))
                               ELSE ret.args.loads[k].magnitude]))

\* a uniform and a point load, both positive, have been solved on five
\* samples: the shear drops by more than the uniform load's share between
\* the sample before midspan and the one at midspan
C16_Witness ==
    /\ SolverDone
    /\ ret.args.n_points = 5
    /\ Len(ret.args.loads) = 2
    /\ ret.args.loads[1].distribution = "uniform"
    /\ ret.args.loads[2].distribution = "point"
    /\ RGt(ret.args.loads[1].magnitude, Zero)
    /\ RGt(ret.args.loads[2].magnitude, Zero)
    /\ RSub(ret.value.V[2], ret.value.V[3]) =
         RAdd(ret.args.loads[2].magnitude,
              RMul(RMul(ret.args.loads[1].magnitude, R(1000)),
                   RSub(ret.value.x_m[3], ret.value.x_m[2])))

\* ------------------------------------------------------------------------
\* C17: for every ULS case, M_max_Nm is the largest |M| over the samples and
\* x_Mmax_m is the position of the lowest-index sample reaching it; V_max_N
\* and x_Vmax_m are the same for |V|.
\* ------------------------------------------------------------------------
\* peak is the largest |arr[k]| and at is x[k] for the first k reaching it
PeakAtFirst(arr, x, peak, at) ==
    /\ \A k \in 1..Len(arr) : RLe(RAbs(arr[k]), peak)
    /\ \E k \in 1..Len(arr) :
         /\ RAbs(arr[k]) = peak
         /\ \A j \in 1..(k - 1) : RLt(RAbs(arr[j]), peak)
         /\ at = x[k]

C17_CaseMaxima ==
    ULSDone =>
        \A nm \in DOMAIN ret.value.cases :
          \A rec \in {ret.value.cases[nm]} :
            /\ PeakAtFirst(rec.M_Nm, rec.x_m, rec.M_max_Nm, rec.x_Mmax_m)
            /\ PeakAtFirst(rec.V_N, rec.x_m, rec.V_max_N, rec.x_Vmax_m)

\* a ULS run has ended with a case whose largest |M|, not zero, is reached
\* at two samples and whose largest |V| is reached at both ends
C17_Witness ==
    /\ ULSDone
    /\ \E nm \in DOMAIN ret.value.cases :
         \E rec \in {ret.value.cases[nm]} :
           /\ RGt(rec.M_max_Nm, Zero)
           /\ \E j, k \in 1..Len(rec.M_Nm) :
                /\ j < k
                /\ RAbs(rec.M_Nm[j]) = rec.M_max_Nm
                /\ RAbs(rec.M_Nm[k]) = rec.M_max_Nm
                /\ rec.x_Mmax_m = rec.x_m[j]
           /\ RGt(rec.V_max_N, Zero)
           /\ RAbs(rec.V_N[1]) = rec.V_max_N
           /\ RAbs(rec.V_N[Len(rec.V_N)]) = rec.V_max_N
           /\ rec.x_Vmax_m = Zero

\* ------------------------------------------------------------------------
\* C18: called with span <= 0 and n_points >= 2 the solver raises nothing
\* (the division by L is not reached) and returns RA = RB = 0 whatever the
\* loads.
\* ------------------------------------------------------------------------
\* a float that is the result of no division by zero
Finite(q) == q \in Int \X (Nat \ {0})

\* the dictionary the solver returns when it runs to its end
SolverReturned(r, n) ==
    /\ DOMAIN r = {"x_m", "V", "M", "RA", "RB"}
    /\ Len(r.x_m) = n /\ Len(r.V) = n /\ Len(r.M) = n
    /\ \A k \in 1..n : Finite(r.x_m[k]) /\ Finite(r.V[k]) /\ Finite(r.M[k])
    /\ Finite(r.RA) /\ Finite(r.RB)

C18_DegenerateSpan ==
    (SolverDone /\ RLe(ret.args.span_mm, Zero) /\ ret.args.n_points >= 2) =>
        /\ SolverReturned(ret.value, ret.args.n_points)
        /\ ret.value.RA = Zero
        /\ ret.value.RB = Zero

\* a negative span has been solved under a uniform and a point load, both
\* positive, and the shear is not zero everywhere
C18_Witness ==
    /\ SolverDone
    /\ RLt(ret.args.span_mm, Zero)
    /\ Len(ret.args.loads) = 2
    /\ ret.args.loads[1].distribution = "uniform"
    /\ ret.args.loads[2].distribution = "point"
    /\ RGt(ret.args.loads[1].magnitude, Zero)
    /\ RGt(ret.args.loads[2].magnitude, Zero)
    /\ ret.value.RA = Zero
    /\ ret.value.RB = Zero
    /\ \E k \in 1..ret.args.n_points : ret.value.V[k] # Zero

\* ------------------------------------------------------------------------
\* C19: a Load with magnitude < 0 or a distribution other than 'uniform' or
\* 'point', a Geometry with span_mm <= 0 or bay_width_mm <= 0, and a
\* Material with E <= 0, density <= 0 or fy <= 0 are rejected by their
\* constructors with a ValueError, and no entity comes into existence.
\* ------------------------------------------------------------------------
Constructing(fn) == pc = "done" /\ ret.fn = fn

Rejected == ret.raised = "ValueError" /\ "value" \notin DOMAIN ret

C19_InvalidRejected ==
    /\ (/\ Constructing("Load")
        /\ \/ RLt(ret.args.magnitude, Zero)
           \/ ret.args.distribution \notin {"uniform", "point"}) => Rejected
    /\ (/\ Constructing("Geometry")
        /\ \/ RLe(ret.args.span_mm, Zero)
           \/ RLe(ret.args.bay_width_mm, Zero)) => Rejected
    /\ (/\ Constructing("Material")
        /\ \/ RLe(ret.args.E, Zero)
           \/ RLe(ret.args.density, Zero)
           \/ RLe(ret.args.fy, Zero)) => Rejected

\* a Geometry of span zero and a positive bay width has been asked for and
\* rejected
C19_Witness ==
    /\ Constructing("Geometry")
    /\ ret.args.span_mm = Zero
    /\ RGt(ret.args.bay_width_mm, Zero)
    /\ Rejected

\* ------------------------------------------------------------------------
\* C20 as stated: a BARRIER load whose height_mm is None or <= 0 is rejected
\* by the constructor whatever its distribution, and to_loads with
\* include_barrier and barrier_height_mm <= 0 raises instead of returning a
\* barrier load.
\* ------------------------------------------------------------------------
C20_AsStated ==
    /\ (/\ Constructing("Load")
        /\ ret.args.kind = "BARRIER"
        /\ \/ ret.args.height_mm = None
           \/ RLe(ret.args.height_mm, Zero)) => Rejected
    /\ (/\ Constructing("to_loads")
        /\ ret.args.include_barrier
        /\ RLe(ret.args.barrier_height_mm, Zero)) => Rejected

\* ------------------------------------------------------------------------
\* C21: for span > 0 and n_points >= 2 the solver returns x[0] = 0,
\* x[last] = span_mm / 1000, equally spaced samples, arrays x, V and M of
\* length n_points, and M[0] = 0.
\* ------------------------------------------------------------------------
C21_Discretisation ==
    (SolverDone /\ RGt(ret.args.span_mm, Zero) /\ ret.args.n_points >= 2) =>
        \A r \in {ret.value} :
          \A n \in {ret.args.n_points} :
            /\ DOMAIN r.x_m = 1..n /\ DOMAIN r.V = 1..n /\ DOMAIN r.M = 1..n
            /\ r.x_m[1] = Zero
            /\ r.x_m[n] = SpanM(ret.args.span_mm)
            /\ \A k \in 1..(n - 1) :
                 RSub(r.x_m[k + 1], r.x_m[k])
                     = RDiv(SpanM(ret.args.span_mm), R(n - 1))
            /\ r.M[1] = Zero

\* a span of 4000 mm has been solved on five samples, 1 m apart, under a
\* load that leaves V[0] # 0
C21_Witness ==
    /\ SolverDone
    /\ ret.args.span_mm = R(4000)
    /\ ret.args.n_points = 5
    /\ ret.value.x_m[2] = R(1)
    /\ ret.value.x_m[5] = R(4)
    /\ ret.value.V[1] # Zero
    /\ ret.value.M[1] = Zero

\* ------------------------------------------------------------------------
\* C24 as stated: for span > 0, n_points >= 2 and every load list the moment
\* vanishes at both supports, M[0] = 0 and M[n_points - 1] = 0, and M >= 0
\* at every sample.
\* ------------------------------------------------------------------------
C24_AsStated ==
    (SolverDone /\ RGt(ret.args.span_mm, Zero) /\ ret.args.n_points >= 2) =>
        /\ ret.value.M[1] = Zero
        /\ ret.value.M[ret.args.n_points] = Zero
        /\ \A k \in 1..ret.args.n_points : RGe(ret.value.M[k], Zero)

\* ------------------------------------------------------------------------
\* C25: every load is symmetric about midspan, so for span > 0 the solver
\* returns RA = RB = half the total applied load; and for every ULS case
\* whose factored total load is positive, V_max_N = RA_N and x_Vmax_m = 0.
\* ------------------------------------------------------------------------
\* the loads case number k of a call is solved with
CaseLoads(a, case) ==
    apply_load_factors(to_loads(a.loading_inputs), case.wind_factor,
                       case.barrier_factor)

C25_Symmetry ==
    /\ (SolverDone /\ RGt(ret.args.span_mm, Zero)) =>
         \A half \in {RDiv(TotalApplied(ret.args.loads, SpanM(ret.args.span_mm)),
                           R(2))} :
           ret.value.RA = half /\ ret.value.RB = half
    /\ ULSDone =>
         \A nm \in DOMAIN ret.value.cases :
           \A total \in {TotalApplied(
                             CaseLoads(ret.args,
                                       ret.args.load_case_set.uls_cases[
                                           LastIndex(ret.args.load_case_set.uls_cases,
                                                     nm)]),
                             SpanM(ret.args.geom.span_mm))} :
             \A rec \in {ret.value.cases[nm]} :
               /\ rec.RA_N = RDiv(total, R(2))
               /\ rec.RB_N = RDiv(total, R(2))
               /\ RGt(total, Zero) =>
                    (rec.V_max_N = rec.RA_N /\ rec.x_Vmax_m = Zero)

\* a ULS run over wind and barrier loads on MaxPoints samples has ended
\* with a case in which both loads are factored above zero
C25_Witness ==
    /\ ULSDone
    /\ ret.args.n_points = MaxPoints
    /\ ret.args.loading_inputs.include_wind
    /\ ret.args.loading_inputs.include_barrier
    /\ \E nm \in DOMAIN ret.value.cases :
         \E c \in {ret.args.load_case_set.uls_cases[
                       LastIndex(ret.args.load_case_set.uls_cases, nm)]} :
           /\ RGt(c.wind_factor, Zero)
           /\ RGt(c.barrier_factor, Zero)
           /\ RGt(ret.value.cases[nm].RA_N, Zero)
           /\ ret.value.cases[nm].V_max_N = ret.value.cases[nm].RA_N
           /\ ret.value.cases[nm].x_Vmax_m = Zero

\* ------------------------------------------------------------------------
\* C22: to_loads returns, in this order, a WIND uniform load of
\* wind_pressure_kpa * bay_width_mm * 1e-3 N/mm if and only if include_wind
\* and a BARRIER point load of barrier_load_kn_per_m * bay_width_mm N if and
\* only if include_barrier; with both flags off, the empty list.
\* ------------------------------------------------------------------------
ToLoadsReturned == Constructing("to_loads") /\ ret.raised = None

IsLoad(load, kind, distribution, magnitude) ==
    /\ load.kind = kind
    /\ load.distribution = distribution
    /\ load.magnitude = magnitude

C22_ToLoads ==
    ToLoadsReturned =>
        \A li \in {ret.args} :
          \A loads \in {ret.value} :
            /\ Len(loads) = (IF li.include_wind THEN 1 ELSE 0)
                              + (IF li.include_barrier THEN 1 ELSE 0)
            /\ li.include_wind =>
                 IsLoad(loads[1], "WIND", "uniform",
                        RMul(RMul(li.wind_pressure_kpa, li.bay_width_mm),
                             <<1, 1000>>))
            /\ li.include_barrier =>
                 IsLoad(loads[Len(loads)], "BARRIER", "point",
                        RMul(li.barrier_load_kn_per_m, li.bay_width_mm))
            /\ (~li.include_wind /\ ~li.include_barrier) => loads = <<>>

\* to_loads has returned a wind load of 3 N/mm followed by a barrier load
\* of 2220 N for 1 kPa and 0.74 kN/m on a bay of 3000 mm
C22_Witness ==
    /\ ToLoadsReturned
    /\ ret.args.wind_pressure_kpa = R(1)
    /\ ret.args.barrier_load_kn_per_m = <<37, 50>>
    /\ ret.args.bay_width_mm = R(3000)
    /\ Len(ret.value) = 2
    /\ IsLoad(ret.value[1], "WIND", "uniform", R(3))
    /\ IsLoad(ret.value[2], "BARRIER", "point", R(2220))

\* ------------------------------------------------------------------------
\* C23 as stated: for every case list, lists with a repeated name included,
\* the result holds one 'cases' entry per evaluated case, and the entry
\* stored under a governing case name carries the governing value
\* (M_max_Nm, V_max_N for ULS; I_req_m4 for SLS).
\* ------------------------------------------------------------------------
C23_AsStated ==
    /\ ULSDone =>
         \A r \in {ret.value} :
           /\ Cardinality(DOMAIN r.cases) = Len(ret.args.load_case_set.uls_cases)
           /\ r.governing.case_M # None =>
                r.cases[r.governing.case_M].M_max_Nm = r.governing.M_max[2]
           /\ r.governing.case_V # None =>
                r.cases[r.governing.case_V].V_max_N = r.governing.V_max[2]
    /\ SLSDone =>
         \A r \in {ret.value} :
           /\ Cardinality(DOMAIN r.cases) = Len(ret.args.load_case_set.sls_cases)
           /\ r.governing.case # None =>
                r.cases[r.governing.case].I_req_m4 = r.governing.I_req_m4

\* ------------------------------------------------------------------------
\* C26: every load the two analyses hand to the solver has magnitude >= 0:
\* the base loads come from the Load constructor and the factors of a
\* LoadCombination are validated as non-negative, so the unvalidated
\* product made by apply_load_factors is never negative.
\* ------------------------------------------------------------------------
\* the case the loop of an analysis is about to evaluate
NextCase ==
    IF pc = "uls_loop" THEN args.load_case_set.uls_cases[loc.i + 1]
    ELSE args.load_case_set.sls_cases[loc.i + 1]

InLoop ==
    \/ pc = "uls_loop" /\ loc.i < Len(args.load_case_set.uls_cases)
    \/ pc = "sls_loop" /\ loc.i < Len(args.load_case_set.sls_cases)

C26_NonNegativeLoads ==
    InLoop =>
        \A handed \in {apply_load_factors(loc.base_loads, NextCase.wind_factor,
                                           NextCase.barrier_factor)} :
          /\ Len(handed) = Len(loc.base_loads)
          /\ \A k \in 1..Len(handed) : RGe(handed[k].magnitude, Zero)

\* an analysis over wind and barrier loads, both positive, is about to
\* evaluate a case with a factor of zero and a factor above 1
C26_Witness ==
    /\ InLoop
    /\ Len(loc.base_loads) = 2
    /\ RGt(loc.base_loads[1].magnitude, Zero)
    /\ RGt(loc.base_loads[2].magnitude, Zero)
    /\ NextCase.wind_factor = Zero
    /\ RGt(NextCase.barrier_factor, R(1))
    /\ loc.i > 0

\* ------------------------------------------------------------------------
\* C27: with the EN 1990 default cases and the wind load alone, the cases
\* 'ULS 1: 1.5W + 0.75L' and 'ULS 3: 1.5W' give the same M_max and V_max and
\* 'ULS 1: 1.5W + 0.75L' governs moment and shear; with the barrier load
\* alone 'ULS 2: 0.75W + 1.5L' governs.
\* ------------------------------------------------------------------------
EN1990Done == ULSDone /\ ret.args.load_case_set.uls_cases = EN1990_uls_cases

Governs(r, name) == r.governing.case_M = name /\ r.governing.case_V = name

RoundTripDone == pc = "done" /\ ret.fn = "update_from_dataframes"

Triples(cases) ==
    [k \in 1..Len(cases) |->
        <<cases[k].name, cases[k].wind_factor, cases[k].barrier_factor>>]

SameCases(before, after, case_type) ==
    /\ Len(after) = Len(before)
    /\ Triples(after) = Triples(before)
    /\ \A k \in 1..Len(after) : after[k].case_type = case_type

C28_AsStated ==
    RoundTripDone =>
        /\ SameCases(ret.args.self.uls_cases, ret.value.uls_cases, "ULS")
        /\ SameCases(ret.args.self.sls_cases, ret.value.sls_cases, "SLS")

\* C28 amended: a list that is not empty comes back with the same ordered
\* (name, wind_factor, barrier_factor), typed after the list it is in; an
\* empty list comes back as the EN 1990 default cases of its type.
C28_RoundTrip ==
    RoundTripDone =>
        /\ IF ret.args.self.uls_cases = <<>>
           THEN ret.value.uls_cases = EN1990_uls_cases
           ELSE SameCases(ret.args.self.uls_cases, ret.value.uls_cases, "ULS")
        /\ IF ret.args.self.sls_cases = <<>>
           THEN ret.value.sls_cases = EN1990_sls_cases
           ELSE SameCases(ret.args.self.sls_cases, ret.value.sls_cases, "SLS")

\* a set of three ULS cases, with a repeated name and different factors,
\* and no SLS case has gone through the DataFrames
C28_Witness ==
    /\ RoundTripDone
    /\ Len(ret.args.self.uls_cases) = 3
    /\ ret.args.self.uls_cases[1].name = ret.args.self.uls_cases[3].name
    /\ ret.args.self.uls_cases[1].wind_factor
         # ret.args.self.uls_cases[3].wind_factor
    /\ ret.value.uls_cases = ret.args.self.uls_cases
    /\ ret.args.self.sls_cases = <<>>
    /\ Len(ret.value.sls_cases) = 2

\* ------------------------------------------------------------------------
\* C29 as stated: calculate_SLS_requirements returns I_req_cm4 >= 0 for every
\* case, for inputs the UI allows (mullion 500 to 15000 mm, barrier height
\* 0 to 2000 mm, loads and factors >= 0, E > 0, deflection limit > 0), and
\* the I_req of a wind + barrier case is the sum of those of the wind-only
\* and barrier-only cases of the same factors.
\* ------------------------------------------------------------------------
SLSRequirementsDone == pc = "done" /\ ret.fn = "calculate_SLS_requirements"

C29_AsStated ==
    SLSRequirementsDone =>
        \A r \in {ret.value.results} :
          /\ \A nm \in DOMAIN r : RGe(r[nm].I_req_cm4, Zero)
          /\ r["W+L"].I_req_cm4 = RAdd(r["W"].I_req_cm4, r["L"].I_req_cm4)

\* ------------------------------------------------------------------------
\* C30: calculate_deflection_limit is non-decreasing in L and has no jump
\* at the tier boundaries: from any L to a longer one the limit never falls
\* and rises by at most 1/200 of the difference in length, and it is 15 mm
\* at L = 3000 and 30 mm at L = 7500, where the middle formula 5 + L/300
\* gives the same values.
\* ------------------------------------------------------------------------
DeflectionLimitDone == pc = "done" /\ ret.fn = "calculate_deflection_limit"

C30_TieredLimit ==
    DeflectionLimitDone =>
        \A L \in {ret.args.L} :
          /\ \A L2 \in LimitLengths :
                RLe(L, L2) =>
                    \A d \in {RSub(calculate_deflection_limit(L2), ret.value)} :
                        /\ RGe(d, Zero)
                        /\ RLe(d, RDiv(RSub(L2, L), R(200)))
          /\ L = R(3000) =>
                /\ ret.value = R(15)
                /\ RAdd(R(5), RDiv(L, R(300))) = R(15)
          /\ L = R(7500) =>
                /\ ret.value = R(30)
                /\ RAdd(R(5), RDiv(L, R(300))) = R(30)

\* the call at the first tier boundary, whose neighbour 3001 mm is in the
\* next tier
C30_Witness ==
    /\ DeflectionLimitDone
    /\ ret.args.L = R(3000)
    /\ ret.value = R(15)
    /\ R(3001) \in LimitLengths

====
